---- MODULE Spec2Model ----
(***************************************************************************)
(* A model of backup_manager's retention engine (core/backup_manager.py)  *)
(* and S3 synchronisation engine (core/sync_manager.py).                  *)
(*                                                                         *)
(* Strings are sequences of one-character strings, so that key building,  *)
(* the rotator's regular expression, strftime/strptime and string sorting *)
(* are computed character by character as the code computes them.         *)
(* Times are minutes since 1970-01-01 00:00 (proleptic Gregorian).        *)
(***************************************************************************)
EXTENDS Integers, Sequences, FiniteSets, TLC

VARIABLES
    \* --- the retention engine's surroundings (configuration, file system,
    \*     task tracker), shared by every scan
    watch_folders,        \* config.get_watch_folders(): folder path strings
    rules,                \* config.get_rules(): the retention rules
    send2trash_available, \* SEND2TRASH_AVAILABLE (lines 21-25)
    existing_dirs,        \* the watched folders that exist
    unlistable_dirs,      \* those of them whose iterdir() raises
    unstatable_dirs,      \* the watched folders whose stat() is refused
    raising_dirs,         \* those whose entries, once listed, cannot be
                          \* stat'ed: is_file() raises at line 211
    entries,              \* per depth-1 path: kind, mtime, readable (stat
                          \* works), stubborn (unlink, rmtree and send2trash
                          \* raise on it), nfiles, size
    existing,             \* the depth-1 paths that exist
    scan_now,             \* datetime.now(), in minutes
    active_tasks,         \* BackupManager.active_tasks: task id -> task
    task_seq,             \* stands for time.time() in a task id
    expiring              \* the tasks whose remove_task thread is pending

scanEnvVars == <<watch_folders, rules, send2trash_available, existing_dirs,
                 unlistable_dirs, unstatable_dirs, raising_dirs, entries, existing, scan_now, active_tasks, task_seq, expiring>>

VARIABLES
    \* --- each scan_and_clean execution p
    scan_pc,          \* "off", "idle", "folder", "rule", "delete", "done",
                      \* "raised" (scan_and_clean left by an exception)
    scan_rules,       \* the enabled rules (line 54)
    folder_idx,       \* position in watch_folders
    applicable_rules, \* _process_folder: the rules that apply to the folder
    all_paths,        \* _process_folder: the depth-1 listing
    rule_idx,         \* position in applicable_rules
    processed_paths,  \* _process_folder: the claimed paths
    to_delete,        \* the paths of the rule still to hand to _delete_path
    task_id,          \* the rule's task id, or NoTask
    folder_results,   \* results of the _process_folder under way
    results,          \* results of scan_and_clean
    calls,            \* log: one record per _delete_path call
    evals             \* log: one record per rule evaluated on a folder

scanProcVars == <<scan_pc, scan_rules, folder_idx, applicable_rules, all_paths,
                  rule_idx, processed_paths, to_delete, task_id,
                  folder_results, results, calls, evals>>

scanVars == <<scanEnvVars, scanProcVars>>

VARIABLES
    \* --- key building and version matching (pure functions of _sync_rule
    \*     and _rotate_folder_versions applied to drawn inputs)
    key_pc,         \* "input", "built", "matched"
    key_args,       \* [plat, folder_name, rels, now_local]
    key_ts,         \* the run's version timestamp (line 253)
    s3_keys,        \* the s3_key of each file of the run, in order
    match_ts        \* group(1) of version_pattern.match on each key

keyVars == <<key_pc, key_args, key_ts, s3_keys, match_ts>>

VARIABLES
    \* --- the bucket, as the object store holds it and as rotation sees it
    bucket,          \* the keys of the objects in the S3 bucket
    all_objects,     \* what list_s3_objects last returned to a rotation
    delete_requests, \* the keys delete_s3_object was called with
    deleted_log      \* the summary line of each rotated-away version

s3Vars == <<bucket, all_objects, delete_requests, deleted_log>>

VARIABLES
    \* --- one call of _rotate_folder_versions on a drawn listing
    rot_pc,          \* "ready", "done"
    rot_args,        \* [folder_name, max_versions, max_version_age_days, now]
    rot_before       \* the bucket when the rotation began

rotVars == <<rot_pc, rot_args, rot_before>>

VARIABLES
    \* --- one sync run (_sync_rule) of a SyncManager
    sync_rule,       \* the rule record the run was launched with
    local_dirs,      \* the local folders that exist
    local_files,     \* the local files that exist: [folder, rel]
    sync_running,    \* SyncManager.running
    sync_pc,         \* "idle", "upload", "rotate", "finish", "done"
    sync_clock,      \* [utc, local]: the wall clock, in minutes
    timestamp,       \* the run's version timestamp (line 253)
    files_to_sync,   \* the enumerated (file_path, s3_key, folder_name)
    file_idx,        \* position of the upload loop in files_to_sync
    synced_count,    \* uploads that returned success
    folder_names,    \* the folder names rotation has still to visit
    active_sync_tasks, \* the ids in SyncManager._active_tasks
    local_files0,    \* the local files when the run was launched
    upload_log       \* per loop iteration: [file, key, result, unlinked]

syncVars == <<sync_rule, local_dirs, local_files, sync_running, sync_pc,
              sync_clock, timestamp, files_to_sync, file_idx, synced_count,
              folder_names, active_sync_tasks, local_files0, upload_log>>

VARIABLES
    \* --- one call of BackupManager._check_schedule on drawn inputs
    gate_pc,         \* "ready", "done"
    gate_args,       \* [schedule_enabled, schedules, now,
                     \*  check_interval_minutes]
    gate_due         \* the value _check_schedule returned

gateVars == <<gate_pc, gate_args, gate_due>>

VARIABLES
    \* --- the retention monitor: start_monitoring, its monitor_loop threads,
    \*     stop_monitoring
    mon_config,      \* config.config: [schedule_enabled, schedules,
                     \*  check_interval_minutes]
    mon_running,     \* BackupManager.running
    workers,         \* the monitor_loop threads in spawn order, each
                     \* [pc, wake, late]: pc is "test" (at the while test),
                     \* "gate", "scan", "skip", "sleep_test" (at the if
                     \* before the sleep), "sleeping", "exited", "dead"
                     \* (ended by an uncaught exception); wake is when its
                     \* sleep ends; late counts the scans it began since
                     \* the flag was last cleared
    mon_clock,       \* datetime.now(), in minutes
    mon_log,         \* the gate evaluations so far: [now, due]
    start_calls,     \* calls of start_monitoring so far
    stop_calls       \* calls of stop_monitoring that cleared the flag

monVars == <<mon_config, mon_running, workers, mon_clock, mon_log,
             start_calls, stop_calls>>

VARIABLES
    \* --- the sync evaluator: _sync_loop and _check_and_run_sync of one
    \*     SyncManager, and the configuration it reads
    db_sync_rules,   \* the rows of table sync_rules, in list order
    cfg_sync_rules,  \* config.config["sync_rules"], the copy in memory
    _last_sync,      \* SyncManager._last_sync: rule name -> datetime (UTC)
    tz_offset,       \* local time minus UTC, in seconds
    eval_clock,      \* the wall clock (UTC), in seconds since 1970
    eval_pc,         \* "tick" (about to call _check_and_run_sync),
                     \* "rules" (in its for loop), "sleep"
    eval_rules,      \* rules (line 83)
    eval_now,        \* now (line 84), UTC seconds
    eval_now_local,  \* now_local (line 85), local seconds
    eval_idx,        \* i of the for loop, from 1
    eval_log,        \* one record per rule the loop reached: what it read
                     \* and the outcome "skipped", "due" (launched),
                     \* "not_due" or "raises"
    eval_ticks,      \* calls of _check_and_run_sync so far
    sync_runs,       \* the _sync_rule threads the loop started, in start
                     \* order: [tick, idx, state], state "running",
                     \* "ended" or "killed" (a daemon thread of a process
                     \* that was closed)
    reloads,         \* reloads of the configuration from the database
    restarts         \* restarts of the process

evalVars == <<db_sync_rules, cfg_sync_rules, _last_sync, tz_offset,
              eval_clock, eval_pc, eval_rules, eval_now, eval_now_local,
              eval_idx,
              eval_log, eval_ticks, sync_runs, reloads, restarts>>

VARIABLES
    \* The task tracker of one manager and a reader of get_active_tasks
    trk_kind,        \* "backup" (BackupManager.active_tasks), "sync"
                     \* (SyncManager._active_tasks), "off"
    trk_heap,        \* the task dicts created so far, in creation order;
                     \* a reference to a dict is its index here
    trk_tasks,       \* the tracker dict, in insertion order: [id, ref]
    trk_timers,      \* task ids a remove_task thread is sleeping for
    trk_returned,    \* the list the last get_active_tasks returned: the
                     \* references it holds
    trk_seen         \* what those dicts held when the list was returned

trkVars == <<trk_kind, trk_heap, trk_tasks, trk_timers, trk_returned,
             trk_seen>>

VARIABLES
    \* One call of a function of the program on drawn arguments, or the
    \* main thread of server_mode.main
    call_pc,         \* "ready", "returned", "off"; of main: "main",
                     \* "cleanup", "serving", "stopped"
    call_args,       \* the arguments
    call_result      \* what the call returned, <<>> before it has

callVars == <<call_pc, call_args, call_result>>

VARIABLES
    \* Two _sync_rule threads of one SyncManager and the task dict they
    \* share
    run_clock,       \* time.time(), in whole seconds
    sync_threads,    \* thread -> its rule's name, position, task id and
                     \* the files it has processed
    _active_tasks    \* SyncManager._active_tasks: task id -> task

runVars == <<run_clock, sync_threads, _active_tasks>>

(***************************************************************************)
(* Characters and strings                                                  *)
(***************************************************************************)

DigitChars == <<"0", "1", "2", "3", "4", "5", "6", "7", "8", "9">>

Digits == {DigitChars[i] : i \in 1..10}

\* The characters the model uses, in code-point order (what Python's string
\* comparison goes by).
CharOrder == <<"(", "*", "+", "-", ".", "/", "0", "1", "2", "3", "4", "5", "6", "7", "8",
               "9", "?", "\\", "_", "a", "b", "c", "d", "f", "t", "x">>

CharCode(c) == CHOOSE i \in 1..Len(CharOrder) : CharOrder[i] = c

DigitVal(c) == (CHOOSE i \in 1..10 : DigitChars[i] = c) - 1

DigitChar(n) == DigitChars[n + 1]

IsPrefix(p, s) == Len(p) <= Len(s) /\ SubSeq(s, 1, Len(p)) = p

\* Python's str < str: the first differing character decides, a proper
\* prefix is smaller.
RECURSIVE StrLess(_, _)
StrLess(s, t) ==
    IF t = <<>> THEN FALSE
    ELSE IF s = <<>> THEN TRUE
    ELSE IF Head(s) = Head(t) THEN StrLess(Tail(s), Tail(t))
    ELSE CharCode(Head(s)) < CharCode(Head(t))

\* min() of a set of strings.
StrMin(S) == CHOOSE s \in S : \A t \in S : t = s \/ StrLess(s, t)

\* str.replace(old, new) for one-character old and new.
StrReplace(s, old, new) == [i \in 1..Len(s) |-> IF s[i] = old THEN new ELSE s[i]]

\* sep.join(parts)
RECURSIVE StrJoin(_, _)
StrJoin(parts, sep) ==
    IF parts = <<>> THEN <<>>
    ELSE IF Len(parts) = 1 THEN parts[1]
    ELSE parts[1] \o <<sep>> \o StrJoin(Tail(parts), sep)

(***************************************************************************)
(* Pattern matching: fnmatch and the part of re the drawn patterns use     *)
(***************************************************************************)

\* fnmatch.fnmatch(name, pat) for patterns of literals, "*" and "?".
RECURSIVE Fnmatch(_, _)
Fnmatch(name, pat) ==
    IF pat = <<>> THEN name = <<>>
    ELSE IF Head(pat) = "*"
         THEN \/ Fnmatch(name, Tail(pat))
              \/ name # <<>> /\ Fnmatch(Tail(name), pat)
    ELSE /\ name # <<>>
         /\ Head(pat) = "?" \/ Head(pat) = Head(name)
         /\ Fnmatch(Tail(name), Tail(pat))

\* re.compile for patterns made of literal characters, ".", "\d", an escaped
\* character, and the postfix quantifiers "*" and "+": a sequence of
\* [kind, ch, rep], with kind "bad" where re.compile raises re.error (a
\* quantifier with nothing to repeat, a lone "(", a trailing backslash).
RECURSIVE ReCompile(_)
ReCompile(p) ==
    IF p = <<>> THEN <<>>
    ELSE LET c == Head(p)
             esc == c = "\\" /\ Len(p) >= 2
             atom == IF c \in {"*", "+", "("} \/ (c = "\\" /\ Len(p) < 2)
                     THEN [kind |-> "bad", ch |-> c]
                     ELSE IF esc /\ p[2] = "d" THEN [kind |-> "digit", ch |-> "d"]
                     ELSE IF esc THEN [kind |-> "lit", ch |-> p[2]]
                     ELSE IF c = "." THEN [kind |-> "any", ch |-> c]
                     ELSE [kind |-> "lit", ch |-> c]
             used == IF esc THEN 2 ELSE 1
             rest == SubSeq(p, used + 1, Len(p))
             quant == IF rest # <<>> /\ Head(rest) \in {"*", "+"}
                      THEN Head(rest) ELSE "1"
             after == IF quant = "1" THEN rest ELSE Tail(rest)
         IN IF atom.kind = "bad" THEN <<[kind |-> "bad", ch |-> c, rep |-> "1"]>>
            ELSE <<[kind |-> atom.kind, ch |-> atom.ch, rep |-> quant]>>
                     \o ReCompile(after)

ReCompileOk(toks) == \A i \in 1..Len(toks) : toks[i].kind # "bad"

ReAtomMatches(tok, c) ==
    \/ tok.kind = "any"
    \/ tok.kind = "digit" /\ c \in Digits
    \/ tok.kind = "lit" /\ tok.ch = c

\* Whether the compiled pattern matches at the start of s; with full, only
\* a match that ends at the end of s counts.
RECURSIVE ReMatchHere(_, _, _)
ReMatchHere(toks, s, full) ==
    IF toks = <<>> THEN (~full \/ s = <<>>)
    ELSE LET t == Head(toks)
             one == [t EXCEPT !.rep = "1"]
             star == [t EXCEPT !.rep = "*"]
         IN IF t.rep = "1"
            THEN /\ s # <<>>
                 /\ ReAtomMatches(t, Head(s))
                 /\ ReMatchHere(Tail(toks), Tail(s), full)
            ELSE IF t.rep = "+"
            THEN /\ s # <<>>
                 /\ ReAtomMatches(t, Head(s))
                 /\ ReMatchHere(<<star>> \o Tail(toks), Tail(s), full)
            ELSE \/ ReMatchHere(Tail(toks), s, full)
                 \/ /\ s # <<>>
                    /\ ReAtomMatches(t, Head(s))
                    /\ ReMatchHere(toks, Tail(s), full)

\* bool(re.match(pattern, s)), False standing for a caught re.error.
ReMatch(pattern, s) ==
    LET toks == ReCompile(pattern)
    IN ReCompileOk(toks) /\ ReMatchHere(toks, s, FALSE)

\* bool(re.fullmatch(pattern, s)), False standing for a caught re.error.
ReFullmatch(pattern, s) ==
    LET toks == ReCompile(pattern)
    IN ReCompileOk(toks) /\ ReMatchHere(toks, s, TRUE)

(***************************************************************************)
(* Calendar: datetime's proleptic Gregorian arithmetic                     *)
(***************************************************************************)

MinutesPerDay == 1440

IsLeap(y) == (y % 4 = 0 /\ y % 100 # 0) \/ y % 400 = 0

DaysInMonth(y, m) ==
    IF m = 2 THEN (IF IsLeap(y) THEN 29 ELSE 28)
    ELSE IF m \in {4, 6, 9, 11} THEN 30 ELSE 31

\* Days from 1970-01-01 to the civil date y-m-d.
DaysFromCivil(y, m, d) ==
    LET yy  == IF m <= 2 THEN y - 1 ELSE y
        era == yy \div 400
        yoe == yy - era * 400
        mp  == IF m > 2 THEN m - 3 ELSE m + 9
        doy == (153 * mp + 2) \div 5 + d - 1
        doe == yoe * 365 + yoe \div 4 - yoe \div 100 + doy
    IN era * 146097 + doe - 719468

\* The civil date of a day number.
CivilFromDays(days) ==
    LET z   == days + 719468
        era == z \div 146097
        doe == z - era * 146097
        yoe == (doe - doe \div 1460 + doe \div 36524 - doe \div 146096) \div 365
        doy == doe - (365 * yoe + yoe \div 4 - yoe \div 100)
        mp  == (5 * doy + 2) \div 153
        d   == doy - (153 * mp + 2) \div 5 + 1
        m   == IF mp < 10 THEN mp + 3 ELSE mp - 9
        y   == yoe + era * 400 + (IF m <= 2 THEN 1 ELSE 0)
    IN [Y |-> y, M |-> m, D |-> d]

\* A naive datetime (minute resolution) of a minute count.
DateTimeOf(minutes) ==
    LET c   == CivilFromDays(minutes \div MinutesPerDay)
        rem == minutes % MinutesPerDay
    IN [Y |-> c.Y, M |-> c.M, D |-> c.D, h |-> rem \div 60, m |-> rem % 60]

MinutesOf(dt) == DaysFromCivil(dt.Y, dt.M, dt.D) * MinutesPerDay + dt.h * 60 + dt.m

Pad2(n) == <<DigitChar(n \div 10), DigitChar(n % 10)>>

Pad4(n) == <<DigitChar(n \div 1000), DigitChar((n \div 100) % 10),
             DigitChar((n \div 10) % 10), DigitChar(n % 10)>>

\* dt.strftime("%Y-%m-%d_%H-%M")
strftime(dt) ==
    Pad4(dt.Y) \o <<"-">> \o Pad2(dt.M) \o <<"-">> \o Pad2(dt.D) \o <<"_">>
        \o Pad2(dt.h) \o <<"-">> \o Pad2(dt.m)

Num2(s, i) == DigitVal(s[i]) * 10 + DigitVal(s[i + 1])

Num4(s, i) == Num2(s, i) * 100 + Num2(s, i + 2)

\* The fields of a string of the shape \d{4}-\d{2}-\d{2}_\d{2}-\d{2}.
TsFields(s) ==
    [Y |-> Num4(s, 1), M |-> Num2(s, 6), D |-> Num2(s, 9),
     h |-> Num2(s, 12), m |-> Num2(s, 15)]

\* Whether datetime.strptime(s, "%Y-%m-%d_%H-%M") returns (TRUE) or raises
\* ValueError (FALSE), for s of the shape above.
strptimeOk(s) ==
    LET f == TsFields(s)
    IN /\ f.Y >= 1
       /\ f.M \in 1..12
       /\ f.D >= 1
       /\ f.D <= DaysInMonth(f.Y, f.M)
       /\ f.h <= 23
       /\ f.m <= 59

(***************************************************************************)
(* ScheduleGate: BackupManager._check_schedule                             *)
(***************************************************************************)

\* datetime.weekday(): 0 is Monday; 1970-01-01 was a Thursday.
Weekday(minutes) == ((minutes \div MinutesPerDay) + 3) % 7

ColonsAt(s) == {i \in 1..Len(s) : s[i] = ":"}

\* The position of the k-th colon of s; 0 before the first, Len(s) + 1
\* after the last.
NthColon(s, k) ==
    IF k = 0 THEN 0
    ELSE IF k > Cardinality(ColonsAt(s)) THEN Len(s) + 1
    ELSE CHOOSE i \in ColonsAt(s) :
            Cardinality({c \in ColonsAt(s) : c < i}) = k - 1

\* s.split(":")
SplitColon(s) ==
    [j \in 1..(Cardinality(ColonsAt(s)) + 1) |->
        SubSeq(s, NthColon(s, j - 1) + 1, NthColon(s, j) - 1)]

\* Whether int(s) returns, for s made of digits and letters.
IntOk(s) == s # <<>> /\ \A i \in 1..Len(s) : s[i] \in Digits

RECURSIVE IntOf(_)
IntOf(s) ==
    IF s = <<>> THEN 0
    ELSE IntOf(SubSeq(s, 1, Len(s) - 1)) * 10 + DigitVal(s[Len(s)])

\* now.strftime("%H:%M")
strftimeHM(now) ==
    Pad2((now % MinutesPerDay) \div 60) \o <<":">> \o Pad2(now % 60)

\* Lines 448-449: whether map(int, time_str.split(":")) unpacks into two
\* integers and datetime(...) accepts them; otherwise ValueError.
ScheduleTimeParses(time_str) ==
    /\ Len(SplitColon(time_str)) = 2
    /\ IntOk(SplitColon(time_str)[1])
    /\ IntOk(SplitColon(time_str)[2])
    /\ IntOf(SplitColon(time_str)[1]) <= 23
    /\ IntOf(SplitColon(time_str)[2]) <= 59

\* Line 449: datetime(now.year, now.month, now.day, hour, minute), the
\* given time of day on now's date.
ScheduleDatetime(now, time_str) ==
    (now \div MinutesPerDay) * MinutesPerDay
        + IntOf(SplitColon(time_str)[1]) * 60 + IntOf(SplitColon(time_str)[2])

Abs(n) == IF n < 0 THEN -n ELSE n

WithinHalfIntervalStrict(time_diff, check_interval_minutes) ==
    2 * time_diff < check_interval_minutes

\* Line 455: time_diff <= check_interval_minutes / 2.
WithinHalfInterval(time_diff, check_interval_minutes) ==
    2 * time_diff <= check_interval_minutes

\* Lines 440-462: whether the loop body returns True on this entry.
ScheduleEntryDue(schedule, now, check_interval_minutes) ==
    /\ Weekday(now) \in schedule.days
    /\ IF ScheduleTimeParses(schedule.time)
       THEN WithinHalfInterval(Abs(now - ScheduleDatetime(now, schedule.time)),
                               check_interval_minutes)
       ELSE strftimeHM(now) = schedule.time

SchedulesDue(schedules, now, check_interval_minutes) ==
    \E i \in 1..Len(schedules) :
        ScheduleEntryDue(schedules[i], now, check_interval_minutes)

CheckScheduleEmptyNeverDue(schedule_enabled, schedules, now, check_interval_minutes) ==
    IF ~schedule_enabled THEN TRUE
    ELSE SchedulesDue(schedules, now, check_interval_minutes)

\* _check_schedule(check_interval_minutes), with the configuration and
\* datetime.now() it reads as parameters.
CheckSchedule(schedule_enabled, schedules, now, check_interval_minutes) ==
    IF ~schedule_enabled THEN TRUE
    ELSE IF schedules = <<>> THEN TRUE
    ELSE SchedulesDue(schedules, now, check_interval_minutes)

\* One call of the gate.
GateCheck ==
    /\ gate_pc = "ready"
    /\ gate_due' = CheckSchedule(gate_args.schedule_enabled,
                                 gate_args.schedules, gate_args.now,
                                 gate_args.check_interval_minutes)
    /\ gate_pc' = "done"
    /\ UNCHANGED gate_args

(***************************************************************************)
(* Scheduler/MonitorLoop: start_monitoring, monitor_loop, stop_monitoring  *)
(***************************************************************************)

MaxWorkers == 2

MaxTicks == 3

\* The scan durations drawn, in minutes.
ScanDurations == {0, 10}

NewWorker == [pc |-> "test", wake |-> 0, late |-> 0]

LoopContinuesAlways(running) == TRUE

\* Line 474: while self.running.
LoopContinues(running) == running

\* Lines 504-505: day_names[d] for d in days raises IndexError for a day
\* outside the list's index range.
SkipLogRaises(config) ==
    /\ config.schedule_enabled
    /\ \E i \in 1..Len(config.schedules) :
          \E d \in config.schedules[i].days : d \notin -7..6

\* Where the thread goes from the skip logging of lines 496-510.
AfterSkipLog(config) == IF SkipLogRaises(config) THEN "dead" ELSE "sleep_test"

SetWorker(w, pc) == [workers EXCEPT ![w].pc = pc]

\* start_monitoring (lines 467-518): the flag is set and a monitor_loop
\* thread is started, whatever the flag was.
StartMonitoring ==
    /\ Len(workers) < MaxWorkers
    /\ mon_running' = TRUE
    /\ workers' = Append([i \in 1..Len(workers) |->
                              [workers[i] EXCEPT !.late = 0]], NewWorker)
    /\ start_calls' = start_calls + 1
    /\ UNCHANGED <<mon_config, mon_clock, mon_log, stop_calls>>

\* stop_monitoring (lines 520-527) when the flag is set; otherwise it does
\* nothing.
StopMonitoring ==
    /\ mon_running
    /\ mon_running' = FALSE
    /\ stop_calls' = stop_calls + 1
    /\ UNCHANGED <<mon_config, workers, mon_clock, mon_log, start_calls>>

\* Line 474: the while test, the only place a thread can leave the loop.
MonTest(w) ==
    /\ workers[w].pc = "test"
    /\ LoopContinues(mon_running) => Len(mon_log) < MaxTicks
    /\ workers' = SetWorker(w, IF LoopContinues(mon_running) THEN "gate"
                               ELSE "exited")
    /\ UNCHANGED <<mon_config, mon_running, mon_clock, mon_log, start_calls,
                   stop_calls>>

\* Lines 475-491: the interval is read and the gate evaluated; when it is
\* due the scan begins.
MonGate(w) ==
    /\ workers[w].pc = "gate"
    /\ LET due == CheckSchedule(mon_config.schedule_enabled,
                                mon_config.schedules, mon_clock,
                                mon_config.check_interval_minutes)
       IN /\ mon_log' = Append(mon_log, [now |-> mon_clock, due |-> due])
          /\ workers' = [workers EXCEPT
                ![w].pc = IF due THEN "scan" ELSE "skip",
                ![w].late = IF due /\ ~mon_running THEN @ + 1 ELSE @]
    /\ UNCHANGED <<mon_config, mon_running, mon_clock, start_calls,
                   stop_calls>>

\* Lines 491-495: scan_and_clean runs to its end, returning or raising into
\* the except clause, and takes some time.
MonScan(w) ==
    /\ workers[w].pc = "scan"
    /\ \E d \in ScanDurations : mon_clock' = mon_clock + d
    /\ workers' = SetWorker(w, "sleep_test")
    /\ UNCHANGED <<mon_config, mon_running, mon_log, start_calls, stop_calls>>

\* Lines 496-510: the skip is logged, outside any try.
MonSkipLog(w) ==
    /\ workers[w].pc = "skip"
    /\ workers' = SetWorker(w, AfterSkipLog(mon_config))
    /\ UNCHANGED <<mon_config, mon_running, mon_clock, mon_log, start_calls,
                   stop_calls>>

\* Lines 512-514: the sleep of a full interval begins unless the flag is
\* cleared.
MonSleepTest(w) ==
    /\ workers[w].pc = "sleep_test"
    /\ workers' = IF mon_running
                  THEN [workers EXCEPT
                          ![w].pc = "sleeping",
                          ![w].wake = mon_clock + mon_config.check_interval_minutes]
                  ELSE SetWorker(w, "test")
    /\ UNCHANGED <<mon_config, mon_running, mon_clock, mon_log, start_calls,
                   stop_calls>>

\* Line 514: time.sleep returns; the earliest sleeper wakes first.
MonWake(w) ==
    /\ workers[w].pc = "sleeping"
    /\ \A v \in 1..Len(workers) :
          workers[v].pc = "sleeping" => workers[w].wake <= workers[v].wake
    /\ mon_clock' = IF workers[w].wake > mon_clock THEN workers[w].wake
                    ELSE mon_clock
    /\ workers' = SetWorker(w, "test")
    /\ UNCHANGED <<mon_config, mon_running, mon_log, start_calls, stop_calls>>

\* One step of one monitor_loop thread.
MonStep(w) ==
    \/ MonTest(w)
    \/ MonGate(w)
    \/ MonScan(w)
    \/ MonSkipLog(w)
    \/ MonSleepTest(w)
    \/ MonWake(w)

(***************************************************************************)
(* SyncEvaluator: _sync_loop, _check_and_run_sync, _check_schedule         *)
(***************************************************************************)

MaxEvalTicks == 3

MaxReloads == 1

MaxRestarts == 1

SecondsPerDay == 86400

\* day_map (line 146).
day_map == <<"mon", "tue", "wed", "thu", "fri", "sat", "sun">>

\* datetime.isoformat() of an aware UTC datetime: the fields of the text
\* YYYY-MM-DDTHH:MM:SS+00:00.
isoformat(t) ==
    LET c == CivilFromDays(t \div SecondsPerDay)
        rem == t % SecondsPerDay
    IN [Y |-> c.Y, M |-> c.M, D |-> c.D, h |-> rem \div 3600,
        m |-> (rem % 3600) \div 60, s |-> rem % 60, utcoffset |-> 0]

\* A text datetime.fromisoformat rejects.
NotIsoText == [Y |-> 0, M |-> 0, D |-> 0, h |-> 0, m |-> 0, s |-> 0,
               utcoffset |-> 0]

\* Lines 98-102: datetime.fromisoformat, None (the empty tuple) standing
\* for a caught exception; otherwise the instant, in UTC seconds.
fromisoformat(text) ==
    IF text.M \notin 1..12 \/ text.D \notin 1..DaysInMonth(text.Y, text.M)
    THEN <<>>
    ELSE <<DaysFromCivil(text.Y, text.M, text.D) * SecondsPerDay
             + text.h * 3600 + text.m * 60 + text.s - text.utcoffset>>

\* Lines 95-102: the rule's last sync, from _last_sync first, from the
\* rule's last_sync text otherwise; <<>> is None.
LastSyncOf(memo, rule) ==
    IF rule.name \in DOMAIN memo THEN <<memo[rule.name]>>
    ELSE IF rule.last_sync = <<>> THEN <<>>
    ELSE fromisoformat(rule.last_sync[1])

\* Line 195: last_sync.astimezone().replace(tzinfo=None).
AsLocalNaive(t, tz) == t

AsLocal(t, tz) == t + tz

\* Lines 161-167: the hour and minute of schedule_time, 3 and 0 when the
\* split or an int() raises.
SyncTimeParts(schedule_time_str) ==
    IF /\ Len(SplitColon(schedule_time_str)) >= 2
       /\ IntOk(SplitColon(schedule_time_str)[1])
       /\ IntOk(SplitColon(schedule_time_str)[2])
    THEN [hour |-> IntOf(SplitColon(schedule_time_str)[1]),
          minute |-> IntOf(SplitColon(schedule_time_str)[2])]
    ELSE [hour |-> 3, minute |-> 0]

\* Lines 170-175: now_local.replace(hour, minute, second=0, microsecond=0).
ScheduledToday(now_local, parts) ==
    (now_local \div SecondsPerDay) * SecondsPerDay
        + parts.hour * 3600 + parts.minute * 60

\* Line 184 and line 188: the launch window is closed after its end.
WindowClosedAtEnd(now_local, scheduled_today) ==
    now_local >= scheduled_today + 5 * 60

WindowClosed(now_local, scheduled_today) ==
    now_local > scheduled_today + 5 * 60

\* _check_schedule (lines 133-203): "due", "not_due", or "raises" when
\* datetime.replace rejects the hour or the minute.
SyncCheckSchedule(rule, last_sync, now_local, tz) ==
    IF rule.schedule_days = {} THEN "not_due"
    ELSE IF day_map[Weekday(now_local \div 60) + 1] \notin rule.schedule_days
    THEN "not_due"
    ELSE LET parts == SyncTimeParts(rule.schedule_time)
             scheduled_today == ScheduledToday(now_local, parts)
         IN IF parts.hour > 23 \/ parts.minute > 59 THEN "raises"
            ELSE IF now_local < scheduled_today THEN "not_due"
            ELSE IF WindowClosed(now_local, scheduled_today)
                    /\ last_sync = <<>>
            THEN "not_due"
            ELSE IF last_sync # <<>>
                    /\ AsLocal(last_sync[1], tz) >= scheduled_today
            THEN "not_due"
            ELSE "due"

\* Lines 112-118.
IntervalElapsedStrict(now, last_sync, interval_minutes) ==
    now - last_sync > interval_minutes * 60

IntervalElapsed(now, last_sync, interval_minutes) ==
    now - last_sync >= interval_minutes * 60

\* Lines 105-118: should_sync.
ShouldSync(rule, last_sync, now, now_local, tz) ==
    IF rule.schedule_type = "schedule"
    THEN SyncCheckSchedule(rule, last_sync, now_local, tz)
    ELSE IF last_sync = <<>> THEN "due"
    ELSE IF IntervalElapsed(now, last_sync[1], rule.interval_minutes)
    THEN "due"
    ELSE "not_due"

\* Line 88.
RuleSkippedNever(rule) == FALSE

RuleSkipped(rule) == ~rule.enabled

\* dict assignment on _last_sync (line 130).
WithLastSync(memo, name, t) ==
    [x \in DOMAIN memo \cup {name} |-> IF x = name THEN t ELSE memo[x]]

\* _update_rule_last_sync (lines 205-210): the text goes to the rule of the
\* configuration in memory, not to the database.
UpdateRuleLastSync(rules_, i, sync_time) ==
    IF i <= Len(rules_)
    THEN [rules_ EXCEPT ![i].last_sync = <<isoformat(sync_time)>>]
    ELSE rules_

\* The _sync_rule threads still executing.
RunningSyncs(runs) == {i \in 1..Len(runs) : runs[i].state = "running"}

ThreadStartLost(runs, tick, idx) == runs

\* Lines 122-127: threading.Thread(target=self._sync_rule, ...).start()
\* returns at once; nothing joins the thread.
ThreadStart(runs, tick, idx) ==
    Append(runs, [tick |-> tick, idx |-> idx, state |-> "running"])

\* The clock moves on between the reads of lines 84 and 85 by less than a
\* second or not at all.
ReadGaps == {0, 1}

\* _check_and_run_sync, lines 83-85: the rules and the two clock reads.
EvalTick ==
    /\ eval_pc = "tick"
    /\ eval_ticks < MaxEvalTicks
    /\ eval_rules' = cfg_sync_rules
    /\ eval_now' = eval_clock
    /\ \E gap \in ReadGaps :
          /\ eval_clock' = eval_clock + gap
          /\ eval_now_local' = eval_clock + gap + tz_offset
    /\ eval_idx' = 1
    /\ eval_pc' = "rules"
    /\ eval_ticks' = eval_ticks + 1
    /\ UNCHANGED <<db_sync_rules, cfg_sync_rules, _last_sync, tz_offset,
                   eval_log, sync_runs, reloads, restarts>>

\* Lines 87-131: one rule of the for loop. What _check_schedule raises
\* leaves _check_and_run_sync and is caught by _sync_loop (lines 75-76).
EvalRule ==
    /\ eval_pc = "rules"
    /\ eval_idx <= Len(eval_rules)
    /\ LET rule == eval_rules[eval_idx]
           last_sync == LastSyncOf(_last_sync, rule)
           outcome == IF RuleSkipped(rule) THEN "skipped"
                      ELSE ShouldSync(rule, last_sync, eval_now,
                                      eval_now_local, tz_offset)
       IN /\ eval_log' = Append(eval_log,
                  [tick |-> eval_ticks, idx |-> eval_idx, rule |-> rule,
                   last_sync |-> last_sync, now |-> eval_now,
                   now_local |-> eval_now_local, outcome |-> outcome,
                   memo |-> _last_sync,
                   busy |-> RunningSyncs(sync_runs) # {}])
          /\ eval_pc' = IF outcome = "raises" THEN "sleep" ELSE "rules"
          /\ eval_idx' = IF outcome = "raises" THEN eval_idx ELSE eval_idx + 1
          /\ IF outcome = "due"
             THEN /\ _last_sync' = WithLastSync(_last_sync, rule.name,
                                                eval_now)
                  /\ cfg_sync_rules' = UpdateRuleLastSync(cfg_sync_rules,
                                            eval_idx, eval_now)
                  /\ sync_runs' = ThreadStart(sync_runs, eval_ticks,
                                              eval_idx)
             ELSE UNCHANGED <<_last_sync, cfg_sync_rules, sync_runs>>
    /\ UNCHANGED <<db_sync_rules, tz_offset, eval_clock, eval_rules, eval_now,
                   eval_now_local, eval_ticks, reloads, restarts>>

\* The for loop ends, _check_and_run_sync returns.
EvalTickEnd ==
    /\ eval_pc = "rules"
    /\ eval_idx > Len(eval_rules)
    /\ eval_pc' = "sleep"
    /\ UNCHANGED <<db_sync_rules, cfg_sync_rules, _last_sync, tz_offset,
                   eval_clock, eval_rules, eval_now, eval_now_local,
                   eval_idx, eval_log, eval_ticks, sync_runs, reloads, restarts>>

\* Line 79: time.sleep(60).
EvalSleep ==
    /\ eval_pc = "sleep"
    /\ eval_clock' = eval_clock + 60
    /\ eval_pc' = "tick"
    /\ UNCHANGED <<db_sync_rules, cfg_sync_rules, _last_sync, tz_offset,
                   eval_rules, eval_now, eval_now_local, eval_idx, eval_log,
                   eval_ticks, sync_runs, reloads, restarts>>

\* Any ConfigManager call that ends with self.config =
\* self._load_config_dict() (config_manager.py, line 464 and others): the
\* rules in memory are the rows of the database again.
ConfigReload ==
    /\ reloads < MaxReloads
    /\ eval_pc = "sleep"
    /\ cfg_sync_rules' = db_sync_rules
    /\ reloads' = reloads + 1
    /\ UNCHANGED <<db_sync_rules, _last_sync, tz_offset, eval_clock, eval_pc,
                   eval_rules, eval_now, eval_now_local, eval_idx, eval_log,
                   eval_ticks, sync_runs, restarts>>

\* The program is closed while the loop sleeps and is running again a
\* minute later: a new ConfigManager (line 40) and a new SyncManager
\* (lines 40-47, 49-58).
Restart ==
    /\ restarts < MaxRestarts
    /\ eval_pc = "sleep"
    /\ cfg_sync_rules' = db_sync_rules
    /\ _last_sync' = <<>>
    /\ eval_clock' = eval_clock + 60
    /\ eval_pc' = "tick"
    /\ sync_runs' = [i \in 1..Len(sync_runs) |->
                        IF sync_runs[i].state = "running"
                        THEN [sync_runs[i] EXCEPT !.state = "killed"]
                        ELSE sync_runs[i]]
    /\ restarts' = restarts + 1
    /\ UNCHANGED <<db_sync_rules, tz_offset, eval_rules, eval_now,
                   eval_now_local, eval_idx, eval_log, eval_ticks, reloads>>

\* A _sync_rule thread returns (lines 224-235 or 373-374).
SyncRunEnds ==
    /\ \E i \in RunningSyncs(sync_runs) :
          sync_runs' = [sync_runs EXCEPT ![i].state = "ended"]
    /\ UNCHANGED <<db_sync_rules, cfg_sync_rules, _last_sync, tz_offset,
                   eval_clock, eval_pc, eval_rules, eval_now, eval_now_local,
                   eval_idx, eval_log, eval_ticks, reloads, restarts>>

(***************************************************************************)
(* RuleMatcher: _rule_applies_to_folder, _matches_rule, _should_delete     *)
(***************************************************************************)

Star == <<"*">>

\* _rule_applies_to_folder (lines 362-383); folder and the rule's folders
\* are absolute path strings.
RuleAppliesToFolder(folder, rule) ==
    /\ rule.folders # <<>>
    /\ \/ \E i \in 1..Len(rule.folders) : rule.folders[i] = Star
       \/ \E i \in 1..Len(rule.folders) :
             \/ folder = rule.folders[i]
             \/ IsPrefix(rule.folders[i] \o <<"\\">>, folder)
             \/ IsPrefix(rule.folders[i] \o <<"/">>, folder)

MatchesRuleBySearch(name, rule) ==
    IF rule.pattern_type = "regex" THEN ReMatch(rule.pattern, name)
    ELSE Fnmatch(name, rule.pattern)

\* _matches_rule (lines 385-399) on the path's name.
MatchesRule(name, rule) ==
    IF rule.pattern_type = "regex" THEN ReFullmatch(rule.pattern, name)
    ELSE Fnmatch(name, rule.pattern)

\* Lines 404-407: max_age_days, when the rule has it, comes first.
MaxAgeMinutes(rule) ==
    IF "max_age_days" \in DOMAIN rule THEN rule.max_age_days * MinutesPerDay
    ELSE rule.max_age_minutes

ShouldDeleteStrict(entry, rule, now) ==
    entry.readable /\ now - entry.mtime > MaxAgeMinutes(rule)

\* _should_delete (lines 401-419): the age in minutes against the rule's
\* threshold; a stat that raises gives False.
ShouldDeletePath(entry, rule, now) ==
    entry.readable /\ now - entry.mtime >= MaxAgeMinutes(rule)

(***************************************************************************)
(* RetentionEngine: scan_and_clean, _process_folder, _delete_path          *)
(***************************************************************************)

NoTask == <<>>

EmptyResults == [deleted |-> <<>>, errors |-> <<>>, total_scanned |-> 0]

EnabledRulesAll(rs) == rs

\* Line 54: the enabled rules, in list order.
EnabledRules(rs) == SelectSeq(rs, LAMBDA r : r.enabled)

\* Line 185: the rules that apply to the folder, in list order.
ApplicableRules(folder, rs) ==
    SelectSeq(rs, LAMBDA r : RuleAppliesToFolder(folder, r))

\* Line 192: the depth-1 entries, here in the order of their names.
RECURSIVE ListDir(_)
ListDir(paths) ==
    IF paths = {} THEN <<>>
    ELSE LET first == StrMin({q.name : q \in paths})
             q == CHOOSE r \in paths : r.name = first
         IN <<q>> \o ListDir(paths \ {q})

IsFile(path) == path \in existing /\ entries[path].kind = "file"

IsDir(path) == path \in existing /\ entries[path].kind = "dir"

UnclaimedOrNot(paths, processed) ==
    SelectSeq(paths, LAMBDA q : IsFile(q) \/ IsDir(q))

\* Lines 207-214: the listed paths the rule looks at: not yet claimed, and
\* still a file or a directory.
Unclaimed(paths, processed) ==
    SelectSeq(paths, LAMBDA q : q \notin processed /\ (IsFile(q) \/ IsDir(q)))

\* Lines 205-221: matching_objects, as (path, mtime) in listing order.
MatchingObjects(paths, processed, rule, now) ==
    LET looked == Unclaimed(paths, processed)
        hits == SelectSeq(looked, LAMBDA q :
                   /\ MatchesRule(q.name, rule)
                   /\ ShouldDeletePath(entries[q], rule, now))
    IN [i \in 1..Len(hits) |-> [path |-> hits[i], mtime |-> entries[hits[i]].mtime]]

\* list.sort(key=mtime, reverse=desc): stable, by insertion.
RECURSIVE InsertByMtime(_, _, _)
InsertByMtime(sorted, x, desc) ==
    IF sorted = <<>> THEN <<x>>
    ELSE IF (IF desc THEN Head(sorted).mtime < x.mtime
             ELSE Head(sorted).mtime > x.mtime)
         THEN <<x>> \o sorted
    ELSE <<Head(sorted)>> \o InsertByMtime(Tail(sorted), x, desc)

RECURSIVE SortByMtime(_, _)
SortByMtime(objs, desc) ==
    IF objs = <<>> THEN <<>>
    ELSE InsertByMtime(SortByMtime(SubSeq(objs, 1, Len(objs) - 1), desc),
                       objs[Len(objs)], desc)

\* Python's seq[:n] and seq[n:] for n >= 0.
Take(seq, n) == SubSeq(seq, 1, IF n < Len(seq) THEN n ELSE Len(seq))

Drop(seq, n) == IF n >= Len(seq) THEN <<>> ELSE SubSeq(seq, n + 1, Len(seq))

SplitKeepLatestOldest(matching, keep_latest) ==
    IF keep_latest > 0 /\ matching # <<>>
    THEN LET sorted == SortByMtime(matching, FALSE)
         IN [to_keep |-> Take(sorted, keep_latest),
             to_delete |-> Drop(sorted, keep_latest)]
    ELSE IF keep_latest = 0
    THEN [to_keep |-> <<>>, to_delete |-> SortByMtime(matching, FALSE)]
    ELSE [to_keep |-> <<>>, to_delete |-> <<>>]

\* Lines 224-240: to_keep and to_delete of one rule.
SplitKeepLatest(matching, keep_latest) ==
    IF keep_latest > 0 /\ matching # <<>>
    THEN LET sorted == SortByMtime(matching, TRUE)
         IN [to_keep |-> Take(sorted, keep_latest),
             to_delete |-> Drop(sorted, keep_latest)]
    ELSE IF keep_latest = 0
    THEN [to_keep |-> <<>>, to_delete |-> SortByMtime(matching, FALSE)]
    ELSE [to_keep |-> <<>>, to_delete |-> <<>>]

PathsOf(objs) == {objs[i].path : i \in 1..Len(objs)}

FilesIn(path) == IF path \in existing THEN entries[path].nfiles ELSE 0

SizeOf(path) == IF path \in existing THEN entries[path].size ELSE 0

\* Lines 246-265: the files and the bytes under the paths to delete.
RECURSIVE TotalFiles(_)
TotalFiles(S) ==
    IF S = {} THEN 0
    ELSE LET x == CHOOSE y \in S : TRUE IN FilesIn(x) + TotalFiles(S \ {x})

RECURSIVE TotalSize(_)
TotalSize(S) ==
    IF S = {} THEN 0
    ELSE LET x == CHOOSE y \in S : TRUE IN SizeOf(x) + TotalSize(S \ {x})

\* _create_task (lines 108-121) with the totals of lines 246-265.
NewTask(rule, paths) ==
    [rule_name |-> rule.name,
     total_files |-> TotalFiles(paths),
     total_size |-> TotalSize(paths),
     processed_files |-> 0, processed_size |-> 0, progress |-> 0,
     status |-> "running"]

\* _update_task_progress (lines 123-146): the mean of the two percentages,
\* int() of it.
UpdatedTask(task, files_delta, size_delta) ==
    LET pf == task.processed_files + files_delta
        ps == task.processed_size + size_delta
        \* twice the percentages' sum, over a common denominator
        fnum == IF task.total_files > 0 THEN pf * 100 ELSE 100
        fden == IF task.total_files > 0 THEN task.total_files ELSE 1
        snum == IF task.total_size > 0 THEN ps * 100 ELSE 100
        sden == IF task.total_size > 0 THEN task.total_size ELSE 1
    IN [task EXCEPT !.processed_files = pf, !.processed_size = ps,
                    !.progress = (fnum * sden + snum * fden) \div (2 * fden * sden)]

DeleteBranchFallback(permanent_delete, available) ==
    IF permanent_delete \/ ~available THEN "permanent" ELSE "trash"

\* Lines 314-330 of _delete_path: which way an existing path goes.
DeleteBranch(permanent_delete, available) ==
    IF permanent_delete THEN "permanent"
    ELSE IF ~available THEN "no_trash"
    ELSE "trash"

\* What the attempt comes to: unlink, rmtree and send2trash raise on a
\* stubborn entry and succeed on any other.
DeleteOutcome(branch, entry) ==
    IF branch = "permanent"
    THEN (IF entry.stubborn THEN "perm_err" ELSE "perm_ok")
    ELSE IF branch = "trash"
    THEN (IF entry.stubborn THEN "trash_err" ELSE "trash_ok")
    ELSE "no_trash"

RecordsDeletedAlways(outcome) == TRUE

\* Lines 317-321 and 336-338: the entry goes to results["deleted"] after
\* unlink, rmtree or send2trash has returned, and to results["errors"]
\* otherwise (lines 326, 342, 354, 358).
RecordsDeleted(outcome) == outcome \in {"perm_ok", "trash_ok"}

ReachesProgressUpdateAlways(outcome) ==
    outcome \in {"perm_ok", "trash_ok", "trash_err"}

\* Lines 330, 346-350: the progress update is reached when neither a return
\* nor an exception came first.
ReachesProgressUpdate(outcome) == outcome \in {"perm_ok", "trash_ok"}

\* The entry appended to results["deleted"] (lines 318, 321, 337-338);
\* after send2trash the path is gone, so item_type is always that of a file.
DeletedEntry(path, kind, outcome) ==
    [path |-> path,
     how |-> IF outcome = "trash_ok" THEN "file_to_trash"
             ELSE IF kind = "dir" THEN "folder_permanent"
             ELSE "permanent"]

\* The entry appended to results["errors"] (lines 326, 342, 354, 358).
ErrorEntry(path, kind, outcome) ==
    [path |-> path,
     what |-> IF outcome = "no_trash" THEN "send2trash_missing"
              ELSE IF outcome = "trash_err" THEN "trash_failed"
              ELSE IF kind = "dir" THEN "folder_delete_error"
              ELSE "delete_error"]

ScanProcs == {"monitor", "manual"}

\* dict assignment and deletion on active_tasks.
WithTask(tasks, id, task) ==
    [x \in DOMAIN tasks \cup {id} |-> IF x = id THEN task ELSE tasks[x]]

WithoutTask(tasks, id) == [x \in DOMAIN tasks \ {id} |-> tasks[x]]

\* scan_and_clean, lines 46-54: fresh results, the enabled rules.
ScanStart(p) ==
    /\ scan_pc[p] = "idle"
    /\ scan_pc' = [scan_pc EXCEPT ![p] = "folder"]
    /\ scan_rules' = [scan_rules EXCEPT ![p] = EnabledRules(rules)]
    /\ folder_idx' = [folder_idx EXCEPT ![p] = 1]
    /\ results' = [results EXCEPT ![p] = EmptyResults]
    /\ UNCHANGED <<applicable_rules, all_paths, rule_idx, processed_paths,
                   to_delete, task_id, folder_results, calls, evals>>
    /\ UNCHANGED scanEnvVars

\* pathlib.Path.exists: an OSError of stat() other than ENOENT, ENOTDIR,
\* EBADF and ELOOP is raised again up to Python 3.13, and gives False from
\* 3.14 on.
ExistsOutcomes(folder) ==
    IF folder \in unstatable_dirs THEN {"raises", "false"}
    ELSE IF folder \in existing_dirs THEN {"true"}
    ELSE {"false"}

\* scan_and_clean, lines 58-63, and _process_folder, lines 178-198: the next
\* watched folder; a missing folder and a listing that raises each leave one
\* error, a folder no rule applies to leaves nothing. folder.exists() is
\* outside the try of line 65: what it raises leaves scan_and_clean.
ScanFolder(p) ==
    /\ scan_pc[p] = "folder"
    /\ folder_idx[p] <= Len(watch_folders)
    /\ LET folder == watch_folders[folder_idx[p]]
           app == ApplicableRules(folder, scan_rules[p])
           skip(what) ==
               /\ results' = [results EXCEPT ![p].errors =
                                 Append(@, [path |-> folder, what |-> what])]
               /\ folder_idx' = [folder_idx EXCEPT ![p] = @ + 1]
               /\ UNCHANGED <<scan_pc, applicable_rules, all_paths, rule_idx,
                              processed_paths, to_delete, task_id,
                              folder_results>>
       IN \E found \in ExistsOutcomes(folder) :
          IF found = "raises"
          THEN /\ scan_pc' = [scan_pc EXCEPT ![p] = "raised"]
               /\ UNCHANGED <<folder_idx, applicable_rules, all_paths,
                              rule_idx, processed_paths, to_delete, task_id,
                              folder_results, results>>
          ELSE IF found = "false" THEN skip("folder_missing")
          ELSE IF app = <<>>
          THEN /\ folder_idx' = [folder_idx EXCEPT ![p] = @ + 1]
               /\ UNCHANGED <<scan_pc, applicable_rules, all_paths, rule_idx,
                              processed_paths, to_delete, task_id,
                              folder_results, results>>
          ELSE IF folder \in unlistable_dirs THEN skip("folder_access")
          ELSE /\ scan_pc' = [scan_pc EXCEPT ![p] = "rule"]
               /\ applicable_rules' = [applicable_rules EXCEPT ![p] = app]
               /\ all_paths' = [all_paths EXCEPT ![p] =
                      ListDir({q \in existing : q.folder = folder})]
               /\ processed_paths' = [processed_paths EXCEPT ![p] = {}]
               /\ rule_idx' = [rule_idx EXCEPT ![p] = 1]
               /\ to_delete' = [to_delete EXCEPT ![p] = <<>>]
               /\ task_id' = [task_id EXCEPT ![p] = NoTask]
               /\ folder_results' = [folder_results EXCEPT ![p] = EmptyResults]
               /\ UNCHANGED <<folder_idx, results>>
    /\ UNCHANGED <<scan_rules, calls, evals>>
    /\ UNCHANGED scanEnvVars

\* Lines 207-211: the first listed path that is not claimed is asked
\* is_file(), outside any try of _process_folder.
RuleScanRaises(folder, paths, processed) ==
    /\ folder \in raising_dirs
    /\ \E i \in 1..Len(paths) : paths[i] \notin processed

\* scan_and_clean, lines 76-79: what _process_folder raises is caught, the
\* folder leaves one error and what it had collected is lost.
ScanRuleRaise(p) ==
    /\ scan_pc[p] = "rule"
    /\ RuleScanRaises(watch_folders[folder_idx[p]], all_paths[p],
                      processed_paths[p])
    /\ results' = [results EXCEPT ![p].errors =
                      Append(@, [path |-> watch_folders[folder_idx[p]],
                                 what |-> "folder_error"])]
    /\ folder_results' = [folder_results EXCEPT ![p] = EmptyResults]
    /\ folder_idx' = [folder_idx EXCEPT ![p] = @ + 1]
    /\ scan_pc' = [scan_pc EXCEPT ![p] = "folder"]
    /\ UNCHANGED <<scan_rules, applicable_rules, all_paths, rule_idx,
                   processed_paths, to_delete, task_id, calls, evals>>
    /\ UNCHANGED scanEnvVars

\* _process_folder, lines 200-270: one rule's matching objects, what it
\* keeps and what it deletes, and its task.
ScanRule(p) ==
    /\ scan_pc[p] = "rule"
    /\ ~RuleScanRaises(watch_folders[folder_idx[p]], all_paths[p],
                       processed_paths[p])
    /\ LET folder == watch_folders[folder_idx[p]]
           rule == applicable_rules[p][rule_idx[p]]
           looked == Unclaimed(all_paths[p], processed_paths[p])
           matching == MatchingObjects(all_paths[p], processed_paths[p],
                                       rule, scan_now)
           split == SplitKeepLatest(matching, rule.keep_latest)
           doomed == [i \in 1..Len(split.to_delete) |-> split.to_delete[i].path]
           scanned == Cardinality({i \in 1..Len(looked) : IsFile(looked[i])})
           id == <<rule.name, folder, task_seq>>
       IN /\ processed_paths' = [processed_paths EXCEPT ![p] =
                                    @ \cup PathsOf(split.to_keep)]
          /\ to_delete' = [to_delete EXCEPT ![p] = doomed]
          /\ folder_results' = [folder_results EXCEPT
                                   ![p].total_scanned = @ + scanned]
          /\ IF doomed # <<>>
             THEN /\ active_tasks' = WithTask(active_tasks, id,
                                        NewTask(rule, PathsOf(split.to_delete)))
                  /\ task_seq' = task_seq + 1
                  /\ task_id' = [task_id EXCEPT ![p] = id]
             ELSE /\ task_id' = [task_id EXCEPT ![p] = NoTask]
                  /\ UNCHANGED <<active_tasks, task_seq>>
          /\ evals' = [evals EXCEPT ![p] = Append(@,
                          [folder_idx |-> folder_idx[p],
                           rule_idx |-> rule_idx[p],
                           rule |-> rule,
                           claimed |-> processed_paths[p],
                           looked |-> {looked[i] : i \in 1..Len(looked)},
                           to_keep |-> PathsOf(split.to_keep),
                           to_delete |-> doomed])]
    /\ scan_pc' = [scan_pc EXCEPT ![p] = "delete"]
    /\ UNCHANGED <<scan_rules, folder_idx, applicable_rules, all_paths,
                   rule_idx, results, calls>>
    /\ UNCHANGED <<watch_folders, rules, send2trash_available, existing_dirs,
                   unlistable_dirs, unstatable_dirs, raising_dirs, entries, existing, scan_now, expiring>>

\* _process_folder, lines 273-275, with _delete_path (lines 283-360): the
\* next path of the rule.
ScanDelete(p) ==
    /\ scan_pc[p] = "delete"
    /\ to_delete[p] # <<>>
    /\ LET path == Head(to_delete[p])
           rule == applicable_rules[p][rule_idx[p]]
           tid == task_id[p]
           branch == DeleteBranch(rule.permanent_delete, send2trash_available)
           try(outcome) ==
               LET removed == outcome \in {"perm_ok", "trash_ok"}
                   kind == entries[path].kind
                   tracked == /\ ReachesProgressUpdate(outcome)
                              /\ tid # NoTask
                              /\ tid \in DOMAIN active_tasks
               IN /\ existing' = IF removed THEN existing \ {path} ELSE existing
                  /\ folder_results' = [folder_results EXCEPT ![p] =
                        IF RecordsDeleted(outcome)
                        THEN [@ EXCEPT !.deleted =
                                 Append(@, DeletedEntry(path, kind, outcome))]
                        ELSE [@ EXCEPT !.errors =
                                 Append(@, ErrorEntry(path, kind, outcome))]]
                  /\ active_tasks' =
                        IF tracked
                        THEN WithTask(active_tasks, tid,
                                 UpdatedTask(active_tasks[tid], FilesIn(path),
                                             SizeOf(path)))
                        ELSE active_tasks
                  /\ calls' = [calls EXCEPT ![p] = Append(@,
                        [folder_idx |-> folder_idx[p], path |-> path,
                         rule |-> rule, existed |-> TRUE, outcome |-> outcome,
                         permanent_attempted |-> branch = "permanent",
                         progressed |-> tracked])]
       IN /\ processed_paths' = [processed_paths EXCEPT ![p] = @ \cup {path}]
          /\ to_delete' = [to_delete EXCEPT ![p] = Tail(@)]
          /\ IF path \notin existing
             THEN /\ calls' = [calls EXCEPT ![p] = Append(@,
                        [folder_idx |-> folder_idx[p], path |-> path,
                         rule |-> rule, existed |-> FALSE, outcome |-> "gone",
                         permanent_attempted |-> FALSE, progressed |-> FALSE])]
                  /\ UNCHANGED <<existing, folder_results, active_tasks>>
             ELSE try(DeleteOutcome(branch, entries[path]))
    /\ UNCHANGED <<scan_pc, scan_rules, folder_idx, applicable_rules,
                   all_paths, rule_idx, task_id, results, evals>>
    /\ UNCHANGED <<watch_folders, rules, send2trash_available, existing_dirs,
                   unlistable_dirs, unstatable_dirs, raising_dirs, entries, scan_now, task_seq, expiring>>

\* _process_folder, lines 278-281, and scan_and_clean, lines 68-70: the
\* rule's task is completed; after the last rule the folder's results are
\* added to the scan's and the folder's own are dropped.
ScanRuleEnd(p) ==
    /\ scan_pc[p] = "delete"
    /\ to_delete[p] = <<>>
    /\ LET tid == task_id[p]
           last == rule_idx[p] = Len(applicable_rules[p])
       IN /\ IF tid # NoTask /\ tid \in DOMAIN active_tasks
             THEN /\ active_tasks' = [active_tasks EXCEPT
                                         ![tid].progress = 100,
                                         ![tid].status = "completed"]
                  /\ expiring' = expiring \cup {tid}
             ELSE UNCHANGED <<active_tasks, expiring>>
          /\ IF last
             THEN /\ results' = [results EXCEPT ![p] =
                        [deleted |-> @.deleted \o folder_results[p].deleted,
                         errors |-> @.errors \o folder_results[p].errors,
                         total_scanned |-> @.total_scanned
                                           + folder_results[p].total_scanned]]
                  /\ folder_results' = [folder_results EXCEPT ![p] =
                                           EmptyResults]
                  /\ folder_idx' = [folder_idx EXCEPT ![p] = @ + 1]
                  /\ scan_pc' = [scan_pc EXCEPT ![p] = "folder"]
                  /\ UNCHANGED rule_idx
             ELSE /\ rule_idx' = [rule_idx EXCEPT ![p] = @ + 1]
                  /\ scan_pc' = [scan_pc EXCEPT ![p] = "rule"]
                  /\ UNCHANGED <<results, folder_idx, folder_results>>
    /\ UNCHANGED <<scan_rules, applicable_rules, all_paths, processed_paths,
                   to_delete, task_id, calls, evals>>
    /\ UNCHANGED <<watch_folders, rules, send2trash_available, existing_dirs,
                   unlistable_dirs, unstatable_dirs, raising_dirs, entries, existing, scan_now, task_seq>>

\* scan_and_clean, lines 84-87: every task is dropped, the results returned.
ScanFinish(p) ==
    /\ scan_pc[p] = "folder"
    /\ folder_idx[p] > Len(watch_folders)
    /\ active_tasks' = <<>>
    /\ scan_pc' = [scan_pc EXCEPT ![p] = "done"]
    /\ UNCHANGED <<scan_rules, folder_idx, applicable_rules, all_paths,
                   rule_idx, processed_paths, to_delete, task_id,
                   folder_results, results, calls, evals>>
    /\ UNCHANGED <<watch_folders, rules, send2trash_available, existing_dirs,
                   unlistable_dirs, unstatable_dirs, raising_dirs, entries, existing, scan_now, task_seq, expiring>>

\* remove_task (lines 163-167), the thread _complete_task starts: five
\* seconds on, the task is deleted if it is still tracked.
TaskRemove ==
    /\ \E id \in expiring :
          /\ expiring' = expiring \ {id}
          /\ active_tasks' = WithoutTask(active_tasks, id)
    /\ UNCHANGED scanProcVars
    /\ UNCHANGED <<watch_folders, rules, send2trash_available, existing_dirs,
                   unlistable_dirs, unstatable_dirs, raising_dirs, entries, existing, scan_now, task_seq>>

(***************************************************************************)
(* SyncKeyBuilder and the rotator's version pattern                        *)
(***************************************************************************)

\* os.sep of the platform the program runs on.
OsSep(plat) == IF plat = "nt" THEN "\\" ELSE "/"

\* str(relative_path): the components joined by os.sep.
RelativeStr(rel, plat) == StrJoin(rel, OsSep(plat))

S3KeyNoReplace(folder_name, ts, rel, versioning_enabled, plat) ==
    IF versioning_enabled
    THEN folder_name \o <<"_">> \o ts \o <<"/">> \o RelativeStr(rel, plat)
    ELSE folder_name \o <<"/">> \o RelativeStr(rel, plat)

\* s3_key of _sync_rule: the f-string, then .replace("\\", "/") on all of it.
S3Key(folder_name, ts, rel, versioning_enabled, plat) ==
    StrReplace(S3KeyNoReplace(folder_name, ts, rel, versioning_enabled, plat),
               "\\", "/")

\* \d{4}-\d{2}-\d{2}_\d{2}-\d{2}
TsShape(s) ==
    /\ Len(s) = 16
    /\ \A i \in 1..16 :
         IF i \in {5, 8, 14} THEN s[i] = "-"
         ELSE IF i = 11 THEN s[i] = "_"
         ELSE s[i] \in Digits

NoMatch == <<>>

VersionMatchUnanchored(folder_name, key) ==
    LET pre == folder_name \o <<"_">>
        n   == Len(pre)
    IN IF /\ Len(key) >= n + 16
          /\ SubSeq(key, 1, n) = pre
          /\ TsShape(SubSeq(key, n + 1, n + 16))
       THEN SubSeq(key, n + 1, n + 16)
       ELSE NoMatch

\* version_pattern.match(key): group(1) of
\* ^{re.escape(folder_name)}_(\d{4}-\d{2}-\d{2}_\d{2}-\d{2})/ or NoMatch.
VersionMatch(folder_name, key) ==
    LET pre == folder_name \o <<"_">>
        n   == Len(pre)
    IN IF /\ Len(key) >= n + 17
          /\ SubSeq(key, 1, n) = pre
          /\ TsShape(SubSeq(key, n + 1, n + 16))
          /\ key[n + 17] = "/"
       THEN SubSeq(key, n + 1, n + 16)
       ELSE NoMatch

(***************************************************************************)
(* VersionRotator: _rotate_folder_versions                                 *)
(***************************************************************************)

\* versions.keys(): the timestamps of the listed keys the pattern matches.
Versions(objects, folder_name) ==
    {VersionMatch(folder_name, k) : k \in objects} \ {NoMatch}

\* versions[timestamp_str]: the objects of one version.
VersionObjects(objects, folder_name, ts) ==
    {k \in objects : VersionMatch(folder_name, k) = ts}

StrMax(S) == CHOOSE s \in S : \A t \in S : t = s \/ StrLess(t, s)

\* sorted(S, reverse=True) of a set of distinct strings.
RECURSIVE SortedDesc(_)
SortedDesc(S) ==
    IF S = {} THEN <<>>
    ELSE LET top == StrMax(S) IN <<top>> \o SortedDesc(S \ {top})

\* (now - version_date).days, version_date being the parsed timestamp taken
\* as UTC: timedelta.days is the floor of the difference in days.
AgeDays(ts, now) == (now - MinutesOf(TsFields(ts))) \div MinutesPerDay

AgeExceedsInclusive(ts, max_age_days, now) ==
    strptimeOk(ts) /\ AgeDays(ts, now) >= max_age_days

\* Lines 455-464: the age test; a timestamp strptime rejects is passed over.
AgeExceeds(ts, max_age_days, now) ==
    strptimeOk(ts) /\ AgeDays(ts, now) > max_age_days

CountExceedsOffByOne(i, max_versions) == max_versions > 0 /\ i > max_versions

\* Line 450: the count test on the 0-based rank i.
CountExceeds(i, max_versions) == max_versions > 0 /\ i >= max_versions

\* should_delete of the loop at lines 446-464.
ShouldDelete(i, ts, max_versions, max_age_days, now) ==
    \/ CountExceeds(i, max_versions)
    \/ /\ max_age_days > 0
       /\ ~CountExceeds(i, max_versions)
       /\ AgeExceeds(ts, max_age_days, now)

\* The versions the loop deletes, given the listing.
VersionsToDelete(objects, folder_name, max_versions, max_age_days, now) ==
    LET sorted_versions == SortedDesc(Versions(objects, folder_name))
    IN {sorted_versions[j] : j \in
          {j \in 1..Len(sorted_versions) :
             ShouldDelete(j - 1, sorted_versions[j], max_versions, max_age_days, now)}}

\* The keys the rotation calls delete_s3_object with (lines 405-473).
ObjectsToDelete(objects, folder_name, max_versions, max_age_days, now) ==
    IF max_versions = 0 /\ max_age_days = 0 THEN {}
    ELSE UNION {VersionObjects(objects, folder_name, ts) :
                  ts \in VersionsToDelete(objects, folder_name, max_versions,
                                          max_age_days, now)}

\* What list_s3_objects may return: the bucket's objects, or [] when the
\* request fails (s3_manager.py lines 620-640).
ListS3Objects == {bucket, {}}

\* delete_s3_object on each key of a request set: each call succeeds or
\* fails on its own; a success removes the object.
DeleteOutcomes(requested) == SUBSET requested

\* Lines 466-482: for each version to delete, its objects and the
\* deleted_count of the summary line, which counts the successful calls.
VersionSummaries(objects, folder_name, max_versions, max_age_days, now, ok) ==
    IF max_versions = 0 /\ max_age_days = 0 THEN {}
    ELSE {[folder_name |-> folder_name, version |-> ts,
           objects_to_delete |-> VersionObjects(objects, folder_name, ts),
           deleted_count |->
               Cardinality(VersionObjects(objects, folder_name, ts) \cap ok)] :
            ts \in VersionsToDelete(objects, folder_name, max_versions,
                                    max_age_days, now)}

\* One call of _rotate_folder_versions.
RotateFolderVersions(folder_name, max_versions, max_age_days, now) ==
    \E listing \in ListS3Objects :
       LET requested == ObjectsToDelete(listing, folder_name, max_versions,
                                        max_age_days, now)
       IN /\ all_objects' = (IF max_versions = 0 /\ max_age_days = 0
                             THEN {} ELSE listing)
          /\ delete_requests' = delete_requests \cup requested
          /\ \E ok \in DeleteOutcomes(requested) :
                /\ bucket' = bucket \ ok
                /\ deleted_log' = deleted_log \cup
                     VersionSummaries(listing, folder_name, max_versions,
                                      max_age_days, now, ok)

(***************************************************************************)
(* Rotation on drawn listings                                              *)
(***************************************************************************)

MaxObjects == 4

MaxVersions == 2

\* The rotation's clock: 2026-03-01 12:00 UTC.
RotNow == MinutesOf([Y |-> 2026, M |-> 3, D |-> 1, h |-> 12, m |-> 0])

\* Age limits in days the rule may carry.
AgeLimits == {0, 1, 30}

TsAged(minutes) == strftime(DateTimeOf(RotNow - minutes))

\* 2026-02-30_10-00: the pattern's shape, no date.
BadTs == <<"2", "0", "2", "6", "-", "0", "2", "-", "3", "0", "_", "1", "0",
           "-", "0", "0">>

DbName == <<"d", "b">>

FileF == << <<"f">> >>

FileAF == << <<"a">>, <<"f">> >>

\* Objects a bucket may hold: versions of "db" aged 0 minutes, 1 day less a
\* minute, 1 day, 2 days less a minute, 2 days, 40 days (two files), one a
\* day in the future, one with a timestamp that is no date; "db/f" without
\* version; a version of folder "d" and of folder "db_x"; and a key that
\* continues after the timestamp with something else than "/".
CandidateKeys ==
    {S3Key(DbName, TsAged(a), FileF, TRUE, "posix") :
        a \in {0, 1440, 2879, 2880, 40 * 1440, 0 - 1440}}
    \cup {S3Key(DbName, TsAged(40 * 1440), FileAF, TRUE, "posix"),
          S3Key(DbName, BadTs, FileF, TRUE, "posix"),
          S3Key(DbName, <<>>, FileF, FALSE, "posix"),
          S3Key(<<"d">>, TsAged(2880), FileF, TRUE, "posix"),
          S3Key(<<"d", "b", "_", "x">>, TsAged(40 * 1440), FileF, TRUE, "posix"),
          DbName \o <<"_">> \o TsAged(40 * 1440) \o <<".", "t">>}

RECURSIVE SubsetsUpTo(_, _)
SubsetsUpTo(S, n) ==
    IF n = 0 THEN {{}}
    ELSE LET smaller == SubsetsUpTo(S, n - 1)
         IN smaller \cup {T \cup {x} : T \in smaller, x \in S}

S3Park ==
    /\ bucket = {}
    /\ all_objects = {}
    /\ delete_requests = {}
    /\ deleted_log = {}

RotPark ==
    /\ rot_pc = "off"
    /\ rot_args = <<>>
    /\ rot_before = {}

RotInit ==
    /\ bucket \in SubsetsUpTo(CandidateKeys, MaxObjects)
    /\ rot_pc = "ready"
    /\ \E fn \in {DbName, <<"d">>}, mv \in 0..MaxVersions, ma \in AgeLimits :
         rot_args = [folder_name |-> fn, max_versions |-> mv,
                     max_version_age_days |-> ma, now |-> RotNow]
    /\ rot_before = bucket
    /\ all_objects = {}
    /\ delete_requests = {}
    /\ deleted_log = {}

RotateStep ==
    /\ rot_pc = "ready"
    /\ rot_pc' = "done"
    /\ RotateFolderVersions(rot_args.folder_name, rot_args.max_versions,
                            rot_args.max_version_age_days, rot_args.now)
    /\ UNCHANGED <<rot_args, rot_before>>

(***************************************************************************)
(* SyncEngine: one run of _sync_rule                                       *)
(***************************************************************************)

\* bool of SyncManager._matches_pattern(filename, pattern, pattern_type).
MatchesPattern(filename, pattern, pattern_type) ==
    IF pattern = <<"*">> THEN TRUE
    ELSE IF pattern_type = "regex" THEN ReMatch(pattern, filename)
    ELSE Fnmatch(filename, pattern)

\* The files folder.rglob("*") yields that match the rule, with their keys
\* (lines 263-277); the walk is taken in the order of the relative paths.
RECURSIVE FolderEntries(_, _, _, _, _)
FolderEntries(folder, files, rule, ts, plat) ==
    LET mine == {f \in files :
                   /\ f.folder = folder
                   /\ MatchesPattern(f.rel[Len(f.rel)], rule.pattern,
                                     rule.pattern_type)}
    IN IF mine = {} THEN <<>>
       ELSE LET first == StrMin({RelativeStr(f.rel, plat) : f \in mine})
                f == CHOOSE g \in mine : RelativeStr(g.rel, plat) = first
            IN <<[file |-> f,
                  s3_key |-> S3Key(folder.name, ts, f.rel,
                                   rule.versioning_enabled, plat),
                  folder_name |-> folder.name]>>
                 \o FolderEntries(folder, files \ {f}, rule, ts, plat)

\* files_to_sync of lines 256-277: the folders of the rule in list order, a
\* folder that does not exist being skipped.
RECURSIVE Enumerate(_, _, _, _, _, _)
Enumerate(folders, dirs, files, rule, ts, plat) ==
    IF folders = <<>> THEN <<>>
    ELSE (IF Head(folders) \in dirs
          THEN FolderEntries(Head(folders), files, rule, ts, plat)
          ELSE <<>>)
         \o Enumerate(Tail(folders), dirs, files, rule, ts, plat)

\* The names config.get_s3_bucket_by_name finds a bucket for.
ConfiguredBuckets == {"bk"}

\* What upload_file_to_s3 may do for a file: return (True, None), return
\* (False, error), or the iteration raises; a file that is gone cannot be
\* uploaded (s3_manager.py lines 875-878).
UploadResults(file) ==
    IF file \in local_files THEN {"ok", "fail", "raise"} ELSE {"fail", "raise"}

MayUnlinkIgnoringResult(result, rule) == rule.delete_after_sync

\* Lines 326-334: file_path.unlink() is reached.
MayUnlink(result, rule) == result = "ok" /\ rule.delete_after_sync

\* Lines 289-351: the index of the file the loop takes after an upload with
\* this result; the per-file try catches what the iteration raises and a
\* (False, error) return is only logged.
NextFileAborting(idx, result, total) ==
    IF result = "ok" THEN idx + 1 ELSE total + 1

NextFile(idx, result, total) == idx + 1

\* Lines 223-234: the rule names no bucket the configuration knows.
SyncNoBucket ==
    /\ sync_pc = "idle"
    /\ sync_rule.bucket_name \notin ConfiguredBuckets
    /\ sync_pc' = "done"
    /\ UNCHANGED <<sync_rule, local_dirs, local_files, sync_running,
                   sync_clock, timestamp, files_to_sync, file_idx,
                   synced_count, folder_names, active_sync_tasks,
                   local_files0, upload_log, s3Vars>>

\* Lines 236-287: the task is created, the timestamp taken and the files
\* enumerated; an exception of the walk goes to the outer handler.
SyncBegin ==
    /\ sync_pc = "idle"
    /\ sync_rule.bucket_name \in ConfiguredBuckets
    /\ active_sync_tasks' = active_sync_tasks \cup {"sync_task"}
    /\ timestamp' = strftime(DateTimeOf(sync_clock.local))
    /\ local_files0' = local_files
    /\ \E walk_raises \in BOOLEAN :
         IF walk_raises
         THEN /\ files_to_sync' = <<>>
              /\ sync_pc' = "finish"
         ELSE /\ files_to_sync' = Enumerate(sync_rule.folders, local_dirs,
                                            local_files, sync_rule, timestamp',
                                            "posix")
              /\ sync_pc' = "upload"
    /\ file_idx' = 1
    /\ synced_count' = 0
    /\ UNCHANGED <<sync_rule, local_dirs, local_files, sync_running,
                   sync_clock, folder_names, upload_log, s3Vars>>

\* Lines 289-351: one iteration of the upload loop.
SyncUpload ==
    /\ sync_pc = "upload"
    /\ file_idx <= Len(files_to_sync)
    /\ sync_running
    /\ LET e == files_to_sync[file_idx]
       IN \E result \in UploadResults(e.file) :
          \E unlink_ok \in BOOLEAN :
             LET unlinked == /\ MayUnlink(result, sync_rule)
                             /\ unlink_ok
                             /\ e.file \in local_files
             IN /\ unlink_ok \/ MayUnlink(result, sync_rule)
                /\ bucket' = (IF result = "ok" THEN bucket \cup {e.s3_key}
                              ELSE bucket)
                /\ synced_count' = (IF result = "ok" THEN synced_count + 1
                                    ELSE synced_count)
                /\ local_files' = (IF unlinked THEN local_files \ {e.file}
                                   ELSE local_files)
                /\ upload_log' = Append(upload_log,
                                   [file |-> e.file, key |-> e.s3_key,
                                    result |-> result, unlinked |-> unlinked])
                /\ file_idx' = NextFile(file_idx, result, Len(files_to_sync))
    /\ UNCHANGED <<sync_rule, local_dirs, sync_running, sync_pc, sync_clock,
                   timestamp, files_to_sync, folder_names, active_sync_tasks,
                   local_files0, all_objects, delete_requests, deleted_log>>

\* Lines 289-291 and 353-360: the loop ends, by exhaustion or by the break
\* on a cleared running flag; the folder names to rotate are collected.
SyncLoopEnd ==
    /\ sync_pc = "upload"
    /\ file_idx > Len(files_to_sync) \/ ~sync_running
    /\ sync_pc' = "rotate"
    /\ folder_names' = (IF sync_rule.versioning_enabled
                        THEN {sync_rule.folders[i].name :
                                i \in {j \in 1..Len(sync_rule.folders) :
                                         sync_rule.folders[j] \in local_dirs}}
                        ELSE {})
    /\ UNCHANGED <<sync_rule, local_dirs, local_files, sync_running,
                   sync_clock, timestamp, files_to_sync, file_idx,
                   synced_count, active_sync_tasks, local_files0, upload_log,
                   s3Vars>>

\* Lines 362-367: rotation for one of the folder names.
SyncRotate ==
    /\ sync_pc = "rotate"
    /\ \E fn \in folder_names :
         /\ RotateFolderVersions(fn, sync_rule.max_versions,
                                 sync_rule.max_version_age_days, sync_clock.utc)
         /\ folder_names' = folder_names \ {fn}
    /\ UNCHANGED <<sync_rule, local_dirs, local_files, sync_running, sync_pc,
                   sync_clock, timestamp, files_to_sync, file_idx,
                   synced_count, active_sync_tasks, local_files0, upload_log>>

\* _complete_task (lines 514-518): the task leaves the tracker.
CompleteTaskKept(tasks, id) == tasks

CompleteTask(tasks, id) == tasks \ {id}

\* Lines 369-374: the finally clause completes the task.
SyncFinish ==
    /\ \/ sync_pc = "rotate" /\ folder_names = {}
       \/ sync_pc = "finish"
    /\ sync_pc' = "done"
    /\ active_sync_tasks' = CompleteTask(active_sync_tasks, "sync_task")
    /\ UNCHANGED <<sync_rule, local_dirs, local_files, sync_running,
                   sync_clock, timestamp, files_to_sync, file_idx,
                   synced_count, folder_names, local_files0, upload_log,
                   s3Vars>>

\* SyncManager.stop() (lines 60-68) while the run is under way.
SyncStop ==
    /\ sync_running
    /\ sync_pc = "upload"
    /\ sync_running' = FALSE
    /\ UNCHANGED <<sync_rule, local_dirs, local_files, sync_pc, sync_clock,
                   timestamp, files_to_sync, file_idx, synced_count,
                   folder_names, active_sync_tasks, local_files0, upload_log,
                   s3Vars>>

\* --- the runs the model draws

MaxFiles == 2

FolderA == [parent |-> <<"x">>, name |-> DbName]

FolderB == [parent |-> <<"y">>, name |-> DbName]

FolderC == [parent |-> <<"x">>, name |-> <<"d">>]

FolderLists == {<<FolderA>>, <<FolderA, FolderB>>, <<FolderC, FolderA>>}

RelFT == << <<"a">>, <<"f", ".", "t">> >>

LocalFileChoices(dirs) == {[folder |-> d, rel |-> r] : d \in dirs, r \in {FileF, RelFT}}

PatternChoices ==
    {[pattern |-> <<"*">>, pattern_type |-> "wildcard"],
     [pattern |-> <<"*", ".", "t">>, pattern_type |-> "wildcard"],
     [pattern |-> <<"f">>, pattern_type |-> "regex"]}

\* Minutes the local clock is ahead of UTC.
TzOffsets == {180}

SyncRules ==
    {[bucket_name |-> "missing", folders |-> <<FolderA>>, pattern |-> <<"*">>,
      pattern_type |-> "wildcard", versioning_enabled |-> FALSE,
      max_versions |-> 0, max_version_age_days |-> 0,
      delete_after_sync |-> FALSE]}
    \cup {r \in {[bucket_name |-> "bk", folders |-> fl, pattern |-> pc.pattern,
                  pattern_type |-> pc.pattern_type, versioning_enabled |-> ve,
                  max_versions |-> mv, max_version_age_days |-> 0,
                  delete_after_sync |-> das] :
                   fl \in FolderLists, pc \in PatternChoices, ve \in BOOLEAN,
                   mv \in {0, 1}, das \in BOOLEAN} :
            r.versioning_enabled \/ r.max_versions = 0}

SyncPark ==
    /\ sync_rule = <<>>
    /\ local_dirs = {}
    /\ local_files = {}
    /\ sync_running = FALSE
    /\ sync_pc = "off"
    /\ sync_clock = <<>>
    /\ timestamp = <<>>
    /\ files_to_sync = <<>>
    /\ file_idx = 0
    /\ synced_count = 0
    /\ folder_names = {}
    /\ active_sync_tasks = {}
    /\ local_files0 = {}
    /\ upload_log = <<>>

\* What the bucket holds before the run: nothing, or a version of "db" a
\* day old with one or two objects.
SyncBuckets ==
    {{}, {S3Key(DbName, TsAged(1440), FileF, TRUE, "posix")},
     {S3Key(DbName, TsAged(1440), FileF, TRUE, "posix"),
      S3Key(DbName, TsAged(1440), RelFT, TRUE, "posix")}}

\* A bucket holding a version of "db" stamped a day later than the run's
\* clock, alone or beside a version a day old (the timestamp is the local
\* time of whichever machine uploaded the version).
AheadBuckets ==
    {{S3Key(DbName, TsAged(0 - 1440), FileF, TRUE, "posix")},
     {S3Key(DbName, TsAged(0 - 1440), FileF, TRUE, "posix"),
      S3Key(DbName, TsAged(1440), FileF, TRUE, "posix")}}

\* One _sync_rule thread about to run on a drawn rule and folder tree, the
\* manager's running flag drawn from flags and the bucket from buckets.
SyncInitRunning(flags, buckets) ==
    /\ sync_rule \in SyncRules
    /\ local_dirs \in {{FolderA, FolderB, FolderC}, {FolderA, FolderC}}
    /\ local_files \in SubsetsUpTo(LocalFileChoices(local_dirs), MaxFiles)
    /\ sync_running \in flags
    /\ sync_pc = "idle"
    /\ \E tz \in TzOffsets : sync_clock = [utc |-> RotNow, local |-> RotNow + tz]
    /\ timestamp = <<>>
    /\ files_to_sync = <<>>
    /\ file_idx = 0
    /\ synced_count = 0
    /\ folder_names = {}
    /\ active_sync_tasks = {}
    /\ local_files0 = local_files
    /\ upload_log = <<>>
    /\ bucket \in buckets
    /\ all_objects = {}
    /\ delete_requests = {}
    /\ deleted_log = {}

\* A run launched by the evaluator of a started SyncManager.
SyncInit == SyncInitRunning({TRUE}, SyncBuckets)

(***************************************************************************)
(* Key round trip: _sync_rule's key of each file of one run, then the      *)
(* rotator's pattern applied to it                                         *)
(***************************************************************************)

\* Folder base names (Path.name): "db", "d", "db_x" and, legal on POSIX only,
\* a name holding a backslash.
PlainFolderNames == {<<"d", "b">>, <<"d">>, <<"d", "b", "_", "x">>}

BackslashFolderNames == {<<"a", "\\", "b">>}

FolderNamesOn(plat) ==
    IF plat = "posix" THEN PlainFolderNames \cup BackslashFolderNames
    ELSE PlainFolderNames

\* Relative paths of files below a synced folder, as component sequences.
RelPaths == {<< <<"f">> >>, << <<"a">>, <<"f", ".", "t">> >>,
             << <<"a">>, <<"b">>, <<"f">> >>}

\* Local wall-clock minutes the run may start at: 2026-01-16 14:30,
\* 2025-12-31 23:59, 2024-02-29 00:00, 2026-03-01 09:05.
RunTimes == {MinutesOf([Y |-> 2026, M |-> 1, D |-> 16, h |-> 14, m |-> 30]),
             MinutesOf([Y |-> 2025, M |-> 12, D |-> 31, h |-> 23, m |-> 59]),
             MinutesOf([Y |-> 2024, M |-> 2, D |-> 29, h |-> 0, m |-> 0]),
             MinutesOf([Y |-> 2026, M |-> 3, D |-> 1, h |-> 9, m |-> 5])}

KeyPark ==
    /\ key_pc = "off"
    /\ key_args = <<>>
    /\ key_ts = <<>>
    /\ s3_keys = <<>>
    /\ match_ts = <<>>

KeyInit ==
    /\ key_pc = "input"
    /\ \E plat \in {"posix", "nt"} :
       \E fn \in FolderNamesOn(plat) :
       \E r1 \in RelPaths, r2 \in RelPaths, t \in RunTimes :
           key_args = [plat |-> plat, folder_name |-> fn, rels |-> <<r1, r2>>,
                       now_local |-> t]
    /\ key_ts = <<>>
    /\ s3_keys = <<>>
    /\ match_ts = <<>>

\* Lines 253-277: one timestamp for the run, one key per enumerated file.
BuildKeys ==
    /\ key_pc = "input"
    /\ key_pc' = "built"
    /\ key_ts' = strftime(DateTimeOf(key_args.now_local))
    /\ s3_keys' = [i \in 1..Len(key_args.rels) |->
                     S3Key(key_args.folder_name, key_ts', key_args.rels[i],
                           TRUE, key_args.plat)]
    /\ UNCHANGED <<key_args, match_ts>>

\* Lines 420-430: the rotator's pattern for the folder name on each key.
MatchKeys ==
    /\ key_pc = "built"
    /\ key_pc' = "matched"
    /\ match_ts' = [i \in 1..Len(s3_keys) |->
                      VersionMatch(key_args.folder_name, s3_keys[i])]
    /\ UNCHANGED <<key_args, key_ts, s3_keys>>

(***************************************************************************)
(* Retention scans on drawn folders and rules                              *)
(***************************************************************************)

NumNames == 3

MaxKeep == 2

\* The watched folder with the entries, one that does not exist and one
\* whose listing raises.
FolderD == <<"/", "d">>

FolderT == <<"/", "t">>

FolderX == <<"/", "x">>

\* A folder below a directory the process may not search: stat() on it is
\* refused (EACCES).
FolderU == <<"/", "u">>

NameList == << <<"a", ".", "b">>, <<"c", ".", "b">>, <<"a", ".", "t">>, <<"f">> >>

ScanPaths == {[folder |-> FolderD, name |-> NameList[i]] : i \in 1..NumNames}

ScanNows == {2}

Mtimes == {0, 1, 2}

FileAt(m) ==
    [kind |-> "file", mtime |-> m, readable |-> TRUE, stubborn |-> FALSE,
     nfiles |-> 1, size |-> 4]

\* A file that neither unlink nor send2trash can remove.
StubbornFile ==
    [kind |-> "file", mtime |-> 0, readable |-> TRUE, stubborn |-> TRUE,
     nfiles |-> 1, size |-> 4]

\* A file whose stat raises when its age is asked for.
UnreadableFile ==
    [kind |-> "file", mtime |-> 0, readable |-> FALSE, stubborn |-> FALSE,
     nfiles |-> 1, size |-> 4]

DirAt(m) ==
    [kind |-> "dir", mtime |-> m, readable |-> TRUE, stubborn |-> FALSE,
     nfiles |-> 2, size |-> 6]

PlainEntries == {FileAt(m) : m \in Mtimes}

OddEntries == {UnreadableFile, DirAt(0), StubbornFile}

\* The folder's content: every name is there, at most one of them is a
\* directory, unreadable or stubborn, the others are plain files.
Listings ==
    {e \in [ScanPaths -> PlainEntries \cup OddEntries] :
        Cardinality({q \in ScanPaths : e[q] \in OddEntries}) <= 1}

Rule(name, pattern, pattern_type, age, enabled, folders, keep, permanent) ==
    [name |-> name, pattern |-> pattern, pattern_type |-> pattern_type,
     max_age_minutes |-> age, enabled |-> enabled, folders |-> folders,
     keep_latest |-> keep, permanent_delete |-> permanent]

RulePatterns ==
    {[pattern |-> <<"?", ".", "?">>, pattern_type |-> "wildcard"],
     [pattern |-> <<"a", ".", "*">>, pattern_type |-> "regex"]}

AgeLimitsMinutes == {0, 2}

FirstRules ==
    {Rule("r1", pt.pattern, pt.pattern_type, age, TRUE, <<Star>>, keep, perm) :
        pt \in RulePatterns, age \in AgeLimitsMinutes, keep \in 0..MaxKeep,
        perm \in BOOLEAN}
    \cup {Rule("r1", pt.pattern, pt.pattern_type, 0, FALSE, <<Star>>, 0, TRUE) :
             pt \in RulePatterns}
    \cup {Rule("r1", Star, "wildcard", 0, TRUE, fs, 0, TRUE) :
             fs \in {<<>>, <<FolderD>>, <<FolderX>>}}

SecondRules ==
    {Rule("r2", Star, "wildcard", 0, TRUE, <<Star>>, 0, TRUE),
     Rule("r2", <<"*", ".", "t">>, "wildcard", 2, TRUE, <<Star>>, 0, TRUE)}

RuleLists == {<<r1, r2>> : r1 \in FirstRules, r2 \in SecondRules}

\* send2trash is drawn only where a rule would use it.
ScanConfigs ==
    {cfg \in [watch : {<<FolderD>>}, rules : RuleLists, listing : Listings,
              trash : BOOLEAN, unstatable : {{}}, raising : {{}}] :
        cfg.trash \/ \E i \in 1..Len(cfg.rules) : ~cfg.rules[i].permanent_delete}
    \cup [watch : {<<FolderX, FolderT, FolderD>>},
          rules : {<<r>> : r \in SecondRules},
          listing : Listings, trash : {TRUE}, unstatable : {{}},
          raising : {{}}]
    \cup [watch : {<<FolderU, FolderD>>},
          rules : {<<r>> : r \in SecondRules},
          listing : Listings, trash : {TRUE}, unstatable : {{FolderU}},
          raising : {{}}]
    \cup [watch : {<<FolderD, FolderX>>},
          rules : {<<r>> : r \in SecondRules},
          listing : Listings, trash : {TRUE}, unstatable : {{}},
          raising : {{FolderD}}]

ScanProcIdle(running) ==
    /\ scan_pc = [p \in ScanProcs |-> IF p \in running THEN "idle" ELSE "off"]
    /\ scan_rules = [p \in ScanProcs |-> <<>>]
    /\ folder_idx = [p \in ScanProcs |-> 1]
    /\ applicable_rules = [p \in ScanProcs |-> <<>>]
    /\ all_paths = [p \in ScanProcs |-> <<>>]
    /\ rule_idx = [p \in ScanProcs |-> 1]
    /\ processed_paths = [p \in ScanProcs |-> {}]
    /\ to_delete = [p \in ScanProcs |-> <<>>]
    /\ task_id = [p \in ScanProcs |-> NoTask]
    /\ folder_results = [p \in ScanProcs |-> EmptyResults]
    /\ results = [p \in ScanProcs |-> EmptyResults]
    /\ calls = [p \in ScanProcs |-> <<>>]
    /\ evals = [p \in ScanProcs |-> <<>>]

ScanEnv(cfg) ==
    /\ watch_folders = cfg.watch
    /\ rules = cfg.rules
    /\ send2trash_available = cfg.trash
    /\ existing_dirs = {FolderD, FolderT}
    /\ unlistable_dirs = {FolderT}
    /\ unstatable_dirs = cfg.unstatable
    /\ raising_dirs = cfg.raising
    /\ entries = cfg.listing
    /\ existing = DOMAIN cfg.listing
    /\ scan_now \in ScanNows
    /\ active_tasks = <<>>
    /\ task_seq = 0
    /\ expiring = {}

\* No scan in this run: nothing watched, no rule, no process.
ScanPark ==
    /\ ScanEnv([watch |-> <<>>, rules |-> <<>>, listing |-> <<>>, trash |-> TRUE,
                unstatable |-> {}, raising |-> {}])
    /\ ScanProcIdle({})

\* One scan, the monitor's, about to start on a drawn configuration.
ScanInit ==
    /\ \E cfg \in ScanConfigs : ScanEnv(cfg)
    /\ ScanProcIdle({"monitor"})

\* One folder of old entries, at most one of them stubborn or a
\* directory, and one rule that matches every name.
PairListings ==
    {e \in Listings :
        \A q \in ScanPaths : e[q] \in {FileAt(0), StubbornFile, DirAt(0)}}

PairConfigs ==
    [watch : {<<FolderD>>},
     rules : {<<Rule("r1", <<"?", ".", "?">>, "wildcard", 0, TRUE, <<Star>>,
                     0, perm)>> : perm \in BOOLEAN},
     listing : PairListings, trash : BOOLEAN, unstatable : {{}},
     raising : {{}}]

\* The monitor thread's scan and a manual scan (tray_icon.py line 82) at
\* the same time.
ScanPairInit ==
    /\ \E cfg \in PairConfigs : ScanEnv(cfg)
    /\ ScanProcIdle(ScanProcs)

(***************************************************************************)
(* Schedule gate inputs                                                    *)
(***************************************************************************)

MaxSchedules == 2

\* Monday 2024-01-01 00:00.
GateBase == DaysFromCivil(2024, 1, 1) * MinutesPerDay

\* Monday 02:58, 03:00, 03:02, 03:03, 03:30, 03:31, 23:50; Tuesday 00:10.
GateNows == {GateBase + m : m \in {178, 180, 182, 183, 210, 211, 1430, 1450}}

GateIntervals == {4, 5, 60}

\* Two well-formed times, one that int() rejects, one that datetime rejects.
ScheduleTimes == {<<"0", "3", ":", "0", "0">>, <<"2", "3", ":", "5", "0">>,
                  <<"3", "a">>, <<"2", "4", ":", "0", "0">>}

ScheduleDaySets == {{}, {0}, {1}}

ScheduleEntries == [days : ScheduleDaySets, time : ScheduleTimes]

SeqsUpTo(S, n) == UNION {[1..k -> S] : k \in 0..n}

GatePark ==
    /\ gate_pc = "off"
    /\ gate_args = <<>>
    /\ gate_due = FALSE

GateInit ==
    /\ gate_pc = "ready"
    /\ gate_args \in [schedule_enabled : BOOLEAN,
                      schedules : SeqsUpTo(ScheduleEntries, MaxSchedules),
                      now : GateNows,
                      check_interval_minutes : GateIntervals]
    /\ gate_due = FALSE

(***************************************************************************)
(* Monitor configurations                                                  *)
(***************************************************************************)

Time0300 == <<"0", "3", ":", "0", "0">>

Time0401 == <<"0", "4", ":", "0", "1">>

Time2350 == <<"2", "3", ":", "5", "0">>

MonConfig(enabled, schedules) ==
    [schedule_enabled |-> enabled, schedules |-> schedules,
     check_interval_minutes |-> 60]

\* Scheduling off; one entry; an entry late in the evening; two entries an
\* hour and a minute apart; an entry whose days go up to 7.
MonConfigs ==
    {MonConfig(FALSE, <<[days |-> {0}, time |-> Time0300]>>),
     MonConfig(TRUE, <<[days |-> {0}, time |-> Time0300]>>),
     MonConfig(TRUE, <<[days |-> {0, 1}, time |-> Time2350]>>),
     MonConfig(TRUE, <<[days |-> {0}, time |-> Time0300],
                       [days |-> {0}, time |-> Time0401]>>),
     MonConfig(TRUE, <<[days |-> {1, 7}, time |-> Time0300]>>)}

\* Monday 03:30 and 23:10.
MonStarts == {GateBase + 210, GateBase + 1390}

MonPark ==
    /\ mon_config = <<>>
    /\ mon_running = FALSE
    /\ workers = <<>>
    /\ mon_clock = 0
    /\ mon_log = <<>>
    /\ start_calls = 0
    /\ stop_calls = 0

\* A BackupManager after construction (lines 29-39): not running, no
\* monitor thread.
MonInit ==
    /\ mon_config \in MonConfigs
    /\ mon_running = FALSE
    /\ workers = <<>>
    /\ mon_clock \in MonStarts
    /\ mon_log = <<>>
    /\ start_calls = 0
    /\ stop_calls = 0

(***************************************************************************)
(* Sync evaluator inputs                                                   *)
(***************************************************************************)

\* Monday 2024-01-01 00:00, in seconds.
EvalMonday == GateBase * 60

\* Local Monday 02:58:59, 03:00:00, 03:05:00, 03:05:01.
EvalStartsLocal == {EvalMonday + d : d \in {10739, 10800, 11100, 11101}}

\* Local time minus UTC: none, three hours.
EvalTzOffsets == {0, 10800}

Time3a == <<"3", "a">>

Time2400 == <<"2", "4", ":", "0", "0">>

SyncRule(name, enabled, schedule_type, interval_minutes, schedule_days,
         schedule_time, last_sync) ==
    [name |-> name, enabled |-> enabled, schedule_type |-> schedule_type,
     interval_minutes |-> interval_minutes, schedule_days |-> schedule_days,
     schedule_time |-> schedule_time, last_sync |-> last_sync]

\* The last_sync texts of a schedule rule: none, Sunday 12:00, Monday 03:00
\* (local), and one that is no date.
ScheduleLastSyncs(tz) ==
    {<<>>, <<isoformat(EvalMonday - 43200 - tz)>>,
     <<isoformat(EvalMonday + 10800 - tz)>>, <<NotIsoText>>}

\* Those of an interval rule: none, Monday 02:58:00 (local), no date.
IntervalLastSyncs(tz) ==
    {<<>>, <<isoformat(EvalMonday + 10680 - tz)>>, <<NotIsoText>>}

ScheduleRules(tz) ==
    {SyncRule("s", TRUE, "schedule", 60, {"mon"}, t, ls) :
        t \in {Time0300, Time3a, Time2400}, ls \in ScheduleLastSyncs(tz)}
    \cup {SyncRule("s", TRUE, "schedule", 60, days, Time0300, ls) :
             days \in {{}, {"tue"}, {"mon", "tue"}},
             ls \in {<<>>, <<isoformat(EvalMonday - 43200 - tz)>>}}
    \cup {SyncRule("s", FALSE, "schedule", 60, {"mon"}, Time0300, <<>>)}

IntervalRules(tz) ==
    {SyncRule("i", TRUE, "interval", n, {}, Time0300, ls) :
        n \in {1, 2}, ls \in IntervalLastSyncs(tz)}
    \cup {SyncRule("i", FALSE, "interval", 1, {}, Time0300, <<>>)}

\* One rule, or a schedule rule whose time datetime rejects followed by an
\* interval rule.
EvalRuleLists(tz) ==
    {<<r>> : r \in ScheduleRules(tz) \cup IntervalRules(tz)}
    \cup {<<SyncRule("s", TRUE, "schedule", 60, {"mon"}, Time2400, <<>>),
            SyncRule("i", TRUE, "interval", 1, {}, Time0300, <<>>)>>,
          <<SyncRule("s", TRUE, "schedule", 60, {"mon"}, Time0300, <<>>),
            SyncRule("i", TRUE, "interval", 1, {}, Time0300, <<>>)>>}

EvalIdle(pc) ==
    /\ _last_sync = <<>>
    /\ eval_pc = pc
    /\ eval_rules = <<>>
    /\ eval_now = 0
    /\ eval_now_local = 0
    /\ eval_idx = 1
    /\ eval_log = <<>>
    /\ eval_ticks = 0
    /\ sync_runs = <<>>
    /\ reloads = 0
    /\ restarts = 0

\* No evaluator in this run.
EvalPark ==
    /\ db_sync_rules = <<>>
    /\ cfg_sync_rules = <<>>
    /\ tz_offset = 0
    /\ eval_clock = 0
    /\ EvalIdle("off")

\* Two rules, the first a schedule rule that is due, not due, or whose
\* time datetime rejects.
EvalRunLists ==
    {<<SyncRule("s", TRUE, "schedule", 60, {"mon"}, t, ls),
       SyncRule("i", e, "interval", 1, {}, Time0300, <<>>)>> :
        t \in {Time0300, Time2400}, e \in BOOLEAN,
        ls \in {<<>>, <<isoformat(EvalMonday - 43200)>>}}

\* A SyncManager just started on two rules, the runs it launches ending
\* whenever they end.
EvalRunsInit ==
    /\ tz_offset = 0
    /\ db_sync_rules \in EvalRunLists
    /\ cfg_sync_rules = db_sync_rules
    /\ \E start \in EvalStartsLocal : eval_clock = start
    /\ EvalIdle("tick")

\* A SyncManager just started on drawn rules at a drawn time.
EvalInit ==
    /\ tz_offset \in EvalTzOffsets
    /\ db_sync_rules \in EvalRuleLists(tz_offset)
    /\ cfg_sync_rules = db_sync_rules
    /\ \E start \in EvalStartsLocal : eval_clock = start - tz_offset
    /\ EvalIdle("tick")

(***************************************************************************)
(* ProgressTracker: the task dicts of BackupManager and SyncManager        *)
(***************************************************************************)

MaxTaskObjects == 2

MaxProgressUpdates == 1

TaskIds == {"t1", "t2"}

\* backup_manager.py lines 108-121 (name, rule_name and start_time, which
\* nothing changes afterwards, are left out).
NewBackupTask(total_files, total_size) ==
    [progress |-> 0, status |-> <<"in_progress">>,
     total_files |-> total_files, processed_files |-> 0,
     total_size |-> total_size, processed_size |-> 0]

\* Lines 131-143: int((files_progress + size_progress) / 2).
BackupProgress(t) ==
    LET pf == t.processed_files
        tf == t.total_files
        ps == t.processed_size
        ts == t.total_size
    IN IF tf > 0 /\ ts > 0 THEN (pf * 100 * ts + ps * 100 * tf) \div (2 * tf * ts)
       ELSE IF tf > 0 THEN (pf * 100 + 100 * tf) \div (2 * tf)
       ELSE IF ts > 0 THEN (100 * ts + ps * 100) \div (2 * ts)
       ELSE 100

\* _update_task_progress, lines 127-146, on the dict of the task.
UpdateTaskProgress(t, files_delta, size_delta) ==
    LET u == [t EXCEPT !.processed_files = @ + files_delta,
                       !.processed_size = @ + size_delta]
    IN [u EXCEPT !.progress = BackupProgress(u),
                 !.status = <<"processed", u.processed_files, u.total_files,
                              u.processed_size, u.total_size>>]

\* BackupManager._complete_task, lines 160-162, on the dict of the task.
CompleteBackupTask(t) ==
    [t EXCEPT !.progress = 100,
              !.status = <<"completed", t.processed_files, t.processed_size>>]

\* sync_manager.py lines 489-497 (id, name and start_time left out).
NewSyncTask ==
    [status |-> <<"starting">>, progress |-> 0, total |-> 0, processed |-> 0,
     current_file |-> <<>>]

\* SyncManager._update_task, lines 503-511: task.update(kwargs), then the
\* recalculation when neither progress nor status was passed.
UpdateTask(t, kwargs) ==
    LET u == [k \in DOMAIN t |-> IF k \in DOMAIN kwargs THEN kwargs[k] ELSE t[k]]
    IN IF /\ "progress" \notin DOMAIN kwargs
          /\ "status" \notin DOMAIN kwargs
          /\ u["total"] > 0
       THEN [u EXCEPT !["progress"] = (u["processed"] * 100) \div u["total"],
                      !["status"] = <<"processed", u["processed"], u["total"]>>]
       ELSE u

\* The keyword arguments _sync_rule calls _update_task with (lines 280,
\* 313-317, 343-348), for a run of two files.
SyncKwargs ==
    {[total |-> 2],
     [status |-> <<"uploading">>, current_file |-> <<"f">>],
     [processed |-> 1, progress |-> 50, status |-> <<"uploaded", 1, 2>>]}

IsTracked(ts, id) == \E i \in 1..Len(ts) : ts[i].id = id

RefOf(ts, id) == ts[CHOOSE i \in 1..Len(ts) : ts[i].id = id].ref

\* d[task_id] = task: a new key goes last, an old key keeps its place.
SetTask(ts, id, ref) ==
    IF IsTracked(ts, id)
    THEN [i \in 1..Len(ts) |-> IF ts[i].id = id THEN [id |-> id, ref |-> ref]
                               ELSE ts[i]]
    ELSE Append(ts, [id |-> id, ref |-> ref])

\* del d[task_id]
DelTask(ts, id) == SelectSeq(ts, LAMBDA e : e.id # id)

\* list(d.values()) with each element a copy of the dict, and as the code
\* has it: a new list of the same dicts.
ValuesCopied(ts, h) == [i \in 1..Len(ts) |-> h[ts[i].ref]]

Values(ts) == [i \in 1..Len(ts) |-> ts[i].ref]

\* _create_task of either manager.
TrkCreate ==
    /\ trk_kind \in {"backup", "sync"}
    /\ Len(trk_heap) < MaxTaskObjects
    /\ \E id \in TaskIds :
       \E total_files \in {0, 2}, total_size \in {3} :
          /\ trk_heap' = Append(trk_heap,
                                IF trk_kind = "backup"
                                THEN NewBackupTask(total_files, total_size)
                                ELSE NewSyncTask)
          /\ trk_tasks' = SetTask(trk_tasks, id, Len(trk_heap) + 1)
    /\ UNCHANGED <<trk_kind, trk_timers, trk_returned, trk_seen>>

\* _update_task_progress (BackupManager) or _update_task (SyncManager) on
\* a tracked task.
TrkUpdate ==
    /\ \E id \in TaskIds :
          /\ IsTracked(trk_tasks, id)
          /\ LET ref == RefOf(trk_tasks, id)
             IN \/ /\ trk_kind = "backup"
                   /\ trk_heap[ref].processed_files < MaxProgressUpdates
                   /\ \E size_delta \in {0, 1} :
                        trk_heap' = [trk_heap EXCEPT ![ref] =
                                       UpdateTaskProgress(@, 1, size_delta)]
                \/ /\ trk_kind = "sync"
                   /\ \E kwargs \in SyncKwargs :
                        trk_heap' = [trk_heap EXCEPT ![ref] =
                                       UpdateTask(@, kwargs)]
    /\ UNCHANGED <<trk_kind, trk_tasks, trk_timers, trk_returned, trk_seen>>

\* _complete_task: BackupManager marks the dict and starts remove_task,
\* SyncManager deletes the key.
TrkComplete ==
    /\ \E id \in TaskIds :
          /\ IsTracked(trk_tasks, id)
          /\ \/ /\ trk_kind = "backup"
                /\ trk_heap' = [trk_heap EXCEPT ![RefOf(trk_tasks, id)] =
                                  CompleteBackupTask(@)]
                /\ trk_timers' = trk_timers \cup {id}
                /\ UNCHANGED trk_tasks
             \/ /\ trk_kind = "sync"
                /\ trk_tasks' = DelTask(trk_tasks, id)
                /\ UNCHANGED <<trk_heap, trk_timers>>
    /\ UNCHANGED <<trk_kind, trk_returned, trk_seen>>

\* remove_task (backup_manager.py lines 164-168) after its sleep.
TrkRemove ==
    /\ \E id \in trk_timers :
          /\ trk_timers' = trk_timers \ {id}
          /\ trk_tasks' = DelTask(trk_tasks, id)
    /\ UNCHANGED <<trk_kind, trk_heap, trk_returned, trk_seen>>

\* scan_and_clean, lines 84-85: active_tasks.clear().
TrkClear ==
    /\ trk_kind = "backup"
    /\ trk_tasks # <<>>
    /\ trk_tasks' = <<>>
    /\ UNCHANGED <<trk_kind, trk_heap, trk_timers, trk_returned, trk_seen>>

\* get_active_tasks of either manager, called by a reader that keeps the
\* list.
GetActiveTasks ==
    /\ trk_kind \in {"backup", "sync"}
    /\ trk_returned' = Values(trk_tasks)
    /\ trk_seen' = ValuesCopied(trk_tasks, trk_heap)
    /\ UNCHANGED <<trk_kind, trk_heap, trk_tasks, trk_timers>>

TrkIdle ==
    /\ trk_heap = <<>>
    /\ trk_tasks = <<>>
    /\ trk_timers = {}
    /\ trk_returned = <<>>
    /\ trk_seen = <<>>

TrkInit == trk_kind \in {"backup", "sync"} /\ TrkIdle

\* No tracker in this run.
TrkPark == trk_kind = "off" /\ TrkIdle

(***************************************************************************)
(* Two sync runs and the task dict of their SyncManager                    *)
(***************************************************************************)

MaxRunSeconds == 2

MaxRunFiles == 2

\* The thread the evaluator tick started and the one run_sync_now started.
SyncThreads == {"tick", "manual"}

RunRuleNames == {"a", "b"}

\* Line 237: f"sync_{rule_name}_{int(time.time())}".
TaskIdOf(rule_name, seconds) == <<"sync", rule_name, seconds>>

\* Lines 489-497: the dict of a new task; owner, which the code does not
\* have, names the thread whose _create_task made the dict.
NewRunTask(owner) == [owner |-> owner, total |-> 0, processed |-> 0]

\* Two threads about to run _sync_rule, each on a rule of a drawn name.
RunsInit ==
    /\ run_clock = 0
    /\ sync_threads \in [SyncThreads ->
            {[pc |-> "idle", rule_name |-> n, task_id |-> <<>>,
              processed |-> 0] : n \in RunRuleNames}]
    /\ _active_tasks = <<>>

\* No such threads in this run.
RunsPark ==
    /\ run_clock = 0
    /\ sync_threads = <<>>
    /\ _active_tasks = <<>>

\* time.time() moves on to the next second.
RunClockSecond ==
    /\ run_clock < MaxRunSeconds
    /\ run_clock' = run_clock + 1
    /\ UNCHANGED <<sync_threads, _active_tasks>>

\* _sync_rule, lines 236-238, with _create_task (lines 486-497): the id is
\* built from the rule name and the second and the dict stored under it.
RunCreateTask(t) ==
    /\ sync_threads[t].pc = "idle"
    /\ LET id == TaskIdOf(sync_threads[t].rule_name, run_clock)
       IN /\ sync_threads' = [sync_threads EXCEPT ![t].pc = "running",
                                                  ![t].task_id = id]
          /\ _active_tasks' = WithTask(_active_tasks, id, NewRunTask(t))
    /\ UNCHANGED run_clock

\* _sync_rule, lines 343-348, with _update_task (lines 499-511): a file is
\* processed and the count written to the dict under the thread's id, if
\* there is one.
RunUpdateTask(t) ==
    /\ sync_threads[t].pc = "running"
    /\ sync_threads[t].processed < MaxRunFiles
    /\ LET id == sync_threads[t].task_id
           done == sync_threads[t].processed + 1
       IN /\ sync_threads' = [sync_threads EXCEPT ![t].processed = done]
          /\ _active_tasks' =
                IF id \in DOMAIN _active_tasks
                THEN [_active_tasks EXCEPT ![id].processed = done]
                ELSE _active_tasks
    /\ UNCHANGED run_clock

\* _sync_rule, lines 373-374, with _complete_task (lines 513-518): the key
\* is deleted if present.
RunCompleteTask(t) ==
    /\ sync_threads[t].pc = "running"
    /\ sync_threads' = [sync_threads EXCEPT ![t].pc = "ended"]
    /\ _active_tasks' = WithoutTask(_active_tasks, sync_threads[t].task_id)
    /\ UNCHANGED run_clock

(***************************************************************************)
(* Calls of _rule_applies_to_folder on drawn folders                       *)
(***************************************************************************)

NoResult == <<>>

\* No such call in this run.
CallPark ==
    /\ call_pc = "off"
    /\ call_args = <<>>
    /\ call_result = NoResult

\* str(Path(...).absolute()) of the watched folders and of the entries of
\* a rule's folders list, on a POSIX system: the root, a folder, its
\* subfolder, a sibling whose name starts with the folder's name, a
\* sibling whose name continues with a backslash, and another folder.
PathRoot == <<"/">>

PathD == <<"/", "d">>

PathDSub == <<"/", "d", "/", "b">>

PathDb == <<"/", "d", "b">>

PathDBackslash == <<"/", "d", "\\", "b">>

PathE == <<"/", "e">>

WatchedPaths == {PathRoot, PathD, PathDSub, PathDb, PathDBackslash, PathE}

RuleFolderLists ==
    {<<>>} \cup {<<a>> : a \in {Star, PathRoot, PathD, PathDb, PathE}}
           \cup {<<a, b>> : a, b \in {Star, PathRoot, PathD, PathE}}

AppliesInit ==
    /\ call_pc = "ready"
    /\ call_args \in {[folder |-> f, rule |-> [folders |-> fs]] :
                         f \in WatchedPaths, fs \in RuleFolderLists}
    /\ call_result = NoResult

\* self._rule_applies_to_folder(folder, rule)
CallRuleApplies ==
    /\ call_pc = "ready"
    /\ call_pc' = "returned"
    /\ call_result' = RuleAppliesToFolder(call_args.folder, call_args.rule)
    /\ UNCHANGED call_args

(***************************************************************************)
(* s3_manager.normalize_endpoint                                           *)
(***************************************************************************)

HttpProto == <<"h", "t", "t", "p", ":", "/", "/">>

HttpsProto == <<"h", "t", "t", "p", "s", ":", "/", "/">>

Port443 == <<":", "4", "4", "3">>

Port80 == <<":", "8", "0">>

\* sub in s
Contains(sub, s) ==
    \E i \in 1..(Len(s) - Len(sub) + 1) : SubSeq(s, i, i + Len(sub) - 1) = sub

\* s.strip(), of blanks
RECURSIVE Strip(_)
Strip(s) ==
    IF s = <<>> THEN s
    ELSE IF Head(s) = " " THEN Strip(Tail(s))
    ELSE IF s[Len(s)] = " " THEN Strip(SubSeq(s, 1, Len(s) - 1))
    ELSE s

BareProtoHttpsUnless80(endpoint) ==
    IF Contains(Port80, endpoint) /\ ~Contains(Port443, endpoint)
    THEN HttpProto ELSE HttpsProto

\* Lines 56-68: the protocol given to an endpoint that has none.
BareProto(endpoint) ==
    IF Contains(Port443, endpoint) THEN HttpsProto
    ELSE IF Contains(Port80, endpoint) THEN HttpProto
    ELSE IF Contains(<<":">>, endpoint) THEN HttpProto
    ELSE HttpsProto

\* normalize_endpoint (lines 15-68) on a str.
normalize_endpoint(endpoint) ==
    IF endpoint = <<>> THEN <<>>
    ELSE LET stripped == Strip(endpoint)
             has_http == IsPrefix(HttpProto, stripped)
             has_https == IsPrefix(HttpsProto, stripped)
             endpoint_without_proto ==
                 IF has_https THEN SubSeq(stripped, 9, Len(stripped))
                 ELSE SubSeq(stripped, 8, Len(stripped))
         IN IF stripped = <<>> THEN <<>>
            ELSE IF has_http \/ has_https
            THEN (IF Contains(Port443, endpoint_without_proto) /\ has_http
                  THEN HttpsProto \o endpoint_without_proto
                  ELSE IF Contains(Port80, endpoint_without_proto) /\ has_https
                  THEN HttpProto \o endpoint_without_proto
                  ELSE stripped)
            ELSE BareProto(stripped) \o stripped

\* The endpoints of the bucket settings: a host, with or without a
\* protocol, a port and blanks around.
EndpointHosts == {<<"h">>, <<"s", "3", ".", "b", "y">>}

EndpointPorts ==
    {<<>>, <<"8", "0">>, <<"4", "4", "3">>, <<"9", "0", "0", "0">>,
     <<"8", "0", "8", "0">>, <<"4", "4", "3", "0">>}

EndpointProtos == {<<>>, HttpProto, HttpsProto}

HostPort(e) == e.host \o (IF e.port = <<>> THEN <<>> ELSE <<":">> \o e.port)

EndpointText(e) ==
    (IF e.padded THEN <<" ">> ELSE <<>>) \o e.proto \o HostPort(e)
        \o (IF e.padded THEN <<" ">> ELSE <<>>)

EndpointInit ==
    /\ call_pc = "ready"
    /\ call_args \in [proto : EndpointProtos, host : EndpointHosts,
                       port : EndpointPorts, padded : BOOLEAN]
    /\ call_result = NoResult

\* normalize_endpoint(endpoint), as create_s3_client calls it (line 98).
CallNormalize ==
    /\ call_pc = "ready"
    /\ call_pc' = "returned"
    /\ call_result' = <<normalize_endpoint(EndpointText(call_args))>>
    /\ UNCHANGED call_args

\* normalize_endpoint on an endpoint it has normalised.
CallNormalizeAgain ==
    /\ call_pc = "returned"
    /\ Len(call_result) = 1
    /\ call_result' = Append(call_result, normalize_endpoint(call_result[1]))
    /\ UNCHANGED <<call_pc, call_args>>

vars == <<scanVars, keyVars, s3Vars, rotVars, syncVars, gateVars, monVars,
          evalVars, trkVars, callVars, runVars>>

scanOthers == <<keyVars, s3Vars, rotVars, syncVars, gateVars, monVars,
      evalVars, trkVars, callVars, runVars>>

keyOthers == <<scanVars, s3Vars, rotVars, syncVars, gateVars, monVars,
      evalVars, trkVars, callVars, runVars>>

rotOthers == <<scanVars, keyVars, syncVars, gateVars, monVars,
      evalVars, trkVars, callVars, runVars>>

syncOthers == <<scanVars, keyVars, rotVars, gateVars, monVars,
      evalVars, trkVars, callVars, runVars>>

gateOthers == <<scanVars, keyVars, s3Vars, rotVars, syncVars, monVars,
      evalVars, trkVars, callVars, runVars>>

monOthers == <<scanVars, keyVars, s3Vars, rotVars, syncVars, gateVars,
      evalVars, trkVars, callVars, runVars>>

evalOthers == <<scanVars, keyVars, s3Vars, rotVars, syncVars, gateVars,
               monVars, trkVars, callVars, runVars>>

\* One retention scan from start to finish: the steps of the thread that
\* runs scan_and_clean.
InitScan ==
    ScanInit /\ KeyPark /\ S3Park /\ RotPark /\ SyncPark /\ GatePark /\ MonPark /\ EvalPark
        /\ TrkPark /\ CallPark /\ RunsPark

NextScan ==
    \/ ScanStart("monitor") /\ UNCHANGED scanOthers
    \/ ScanFolder("monitor") /\ UNCHANGED scanOthers
    \/ ScanRule("monitor") /\ UNCHANGED scanOthers
    \/ ScanRuleRaise("monitor") /\ UNCHANGED scanOthers
    \/ ScanDelete("monitor") /\ UNCHANGED scanOthers
    \/ ScanRuleEnd("monitor") /\ UNCHANGED scanOthers
    \/ ScanFinish("monitor") /\ UNCHANGED scanOthers

SpecScan == InitScan /\ [][NextScan]_vars

InitScanPair ==
    ScanPairInit /\ KeyPark /\ S3Park /\ RotPark /\ SyncPark /\ GatePark
        /\ MonPark /\ EvalPark /\ TrkPark /\ CallPark /\ RunsPark

NextScanPair ==
    \/ ScanStart("monitor") /\ UNCHANGED scanOthers
    \/ ScanFolder("monitor") /\ UNCHANGED scanOthers
    \/ ScanRule("monitor") /\ UNCHANGED scanOthers
    \/ ScanDelete("monitor") /\ UNCHANGED scanOthers
    \/ ScanRuleEnd("monitor") /\ UNCHANGED scanOthers
    \/ ScanFinish("monitor") /\ UNCHANGED scanOthers
    \/ ScanStart("manual") /\ UNCHANGED scanOthers
    \/ ScanFolder("manual") /\ UNCHANGED scanOthers
    \/ ScanRule("manual") /\ UNCHANGED scanOthers
    \/ ScanDelete("manual") /\ UNCHANGED scanOthers
    \/ ScanRuleEnd("manual") /\ UNCHANGED scanOthers
    \/ ScanFinish("manual") /\ UNCHANGED scanOthers

SpecScanPair == InitScanPair /\ [][NextScanPair]_vars

InitKey ==
    KeyInit /\ ScanPark /\ S3Park /\ RotPark /\ SyncPark /\ GatePark /\ MonPark /\ EvalPark
        /\ TrkPark /\ CallPark /\ RunsPark

NextKey ==
    \/ BuildKeys /\ UNCHANGED keyOthers
    \/ MatchKeys /\ UNCHANGED keyOthers

SpecKey == InitKey /\ [][NextKey]_vars

InitRotate ==
    RotInit /\ ScanPark /\ KeyPark /\ SyncPark /\ GatePark /\ MonPark /\ EvalPark
        /\ TrkPark /\ CallPark /\ RunsPark

NextRotate ==
    \/ RotateStep /\ UNCHANGED rotOthers

SpecRotate == InitRotate /\ [][NextRotate]_vars

InitSync ==
    SyncInit /\ ScanPark /\ KeyPark /\ RotPark /\ GatePark /\ MonPark /\ EvalPark
        /\ TrkPark /\ CallPark /\ RunsPark

NextSync ==
    \/ SyncNoBucket /\ UNCHANGED syncOthers
    \/ SyncBegin /\ UNCHANGED syncOthers
    \/ SyncUpload /\ UNCHANGED syncOthers
    \/ SyncLoopEnd /\ UNCHANGED syncOthers
    \/ SyncRotate /\ UNCHANGED syncOthers
    \/ SyncFinish /\ UNCHANGED syncOthers
    \/ SyncStop /\ UNCHANGED syncOthers

SpecSync == InitSync /\ [][NextSync]_vars

\* The thread of _sync_rule that has created its task keeps being
\* scheduled: each of its steps returns (an upload, a rotation request and
\* the finally clause all come back, with a result or an exception).
SyncFairness ==
    /\ WF_vars(SyncUpload /\ UNCHANGED syncOthers)
    /\ WF_vars(SyncLoopEnd /\ UNCHANGED syncOthers)
    /\ WF_vars(SyncRotate /\ UNCHANGED syncOthers)
    /\ WF_vars(SyncFinish /\ UNCHANGED syncOthers)

\* The runs that find an earlier version in the bucket.
InitSyncFair ==
    /\ InitSync
    /\ local_dirs = {FolderA, FolderC}
    /\ bucket # {}

SpecSyncFair == InitSyncFair /\ [][NextSync]_vars /\ SyncFairness

\* The runs of a versioning rule that keeps one version, and of the rule
\* that names no configured bucket, on a bucket that holds a version
\* stamped later than the run.
InitSyncAhead ==
    /\ SyncInitRunning({TRUE}, AheadBuckets)
    /\ \/ sync_rule.versioning_enabled /\ sync_rule.max_versions = 1
       \/ sync_rule.bucket_name \notin ConfiguredBuckets
    /\ ScanPark /\ KeyPark /\ RotPark /\ GatePark /\ MonPark /\ EvalPark
    /\ TrkPark /\ CallPark /\ RunsPark

SpecSyncAhead == InitSyncAhead /\ [][NextSync]_vars

\* One evaluation of the schedule gate on drawn inputs.
InitGate ==
    GateInit /\ ScanPark /\ KeyPark /\ S3Park /\ RotPark /\ SyncPark
        /\ MonPark /\ EvalPark
        /\ TrkPark /\ CallPark /\ RunsPark

NextGate ==
    \/ GateCheck /\ UNCHANGED gateOthers

SpecGate == InitGate /\ [][NextGate]_vars

\* The retention monitor under calls of start_monitoring and
\* stop_monitoring, each monitor_loop thread taking its steps.
InitMonitor ==
    MonInit /\ ScanPark /\ KeyPark /\ S3Park /\ RotPark /\ SyncPark
        /\ GatePark /\ EvalPark /\ TrkPark /\ CallPark /\ RunsPark

NextMonitor ==
    \/ StartMonitoring /\ UNCHANGED monOthers
    \/ StopMonitoring /\ UNCHANGED monOthers
    \/ \E w \in 1..Len(workers) : MonTest(w) /\ UNCHANGED monOthers
    \/ \E w \in 1..Len(workers) : MonGate(w) /\ UNCHANGED monOthers
    \/ \E w \in 1..Len(workers) : MonScan(w) /\ UNCHANGED monOthers
    \/ \E w \in 1..Len(workers) : MonSkipLog(w) /\ UNCHANGED monOthers
    \/ \E w \in 1..Len(workers) : MonSleepTest(w) /\ UNCHANGED monOthers
    \/ \E w \in 1..Len(workers) : MonWake(w) /\ UNCHANGED monOthers

SpecMonitor == InitMonitor /\ [][NextMonitor]_vars

\* Every started thread keeps being scheduled and every time.sleep returns.
MonFairness ==
    \A w \in 1..MaxWorkers :
        WF_vars(w <= Len(workers) /\ MonStep(w) /\ UNCHANGED monOthers)

\* The same monitor when start_monitoring is called once, for the
\* properties of its eventual behaviour.
NextMonitorOnce ==
    \/ start_calls = 0 /\ StartMonitoring /\ UNCHANGED monOthers
    \/ StopMonitoring /\ UNCHANGED monOthers
    \/ \E w \in 1..Len(workers) : MonTest(w) /\ UNCHANGED monOthers
    \/ \E w \in 1..Len(workers) : MonGate(w) /\ UNCHANGED monOthers
    \/ \E w \in 1..Len(workers) : MonScan(w) /\ UNCHANGED monOthers
    \/ \E w \in 1..Len(workers) : MonSkipLog(w) /\ UNCHANGED monOthers
    \/ \E w \in 1..Len(workers) : MonSleepTest(w) /\ UNCHANGED monOthers
    \/ \E w \in 1..Len(workers) : MonWake(w) /\ UNCHANGED monOthers

SpecMonitorFair == InitMonitor /\ [][NextMonitorOnce]_vars /\ MonFairness

\* Monday 02:30 and 02:31: half an interval before the 03:00 entry, and a
\* minute later.
MonEdgeStarts == {GateBase + 150, GateBase + 151}

\* The monitor started once, half an interval before a scheduled time or
\* just after that.
InitMonitorEdge ==
    /\ mon_config \in MonConfigs
    /\ mon_running = FALSE
    /\ workers = <<>>
    /\ mon_clock \in MonEdgeStarts
    /\ mon_log = <<>>
    /\ start_calls = 0
    /\ stop_calls = 0
    /\ ScanPark /\ KeyPark /\ S3Park /\ RotPark /\ SyncPark /\ GatePark
    /\ EvalPark /\ TrkPark /\ CallPark /\ RunsPark

SpecMonitorEdge == InitMonitorEdge /\ [][NextMonitorOnce]_vars

InitEval ==
    EvalInit /\ ScanPark /\ KeyPark /\ S3Park /\ RotPark /\ SyncPark
        /\ GatePark /\ MonPark /\ TrkPark /\ CallPark /\ RunsPark

NextEval ==
    \/ EvalTick /\ UNCHANGED evalOthers
    \/ EvalRule /\ UNCHANGED evalOthers
    \/ EvalTickEnd /\ UNCHANGED evalOthers
    \/ EvalSleep /\ UNCHANGED evalOthers
    \/ ConfigReload /\ UNCHANGED evalOthers
    \/ Restart /\ UNCHANGED evalOthers

SpecEval == InitEval /\ [][NextEval]_vars

InitEvalRuns ==
    EvalRunsInit /\ ScanPark /\ KeyPark /\ S3Park /\ RotPark /\ SyncPark
        /\ GatePark /\ MonPark /\ TrkPark /\ CallPark /\ RunsPark

NextEvalRuns ==
    \/ EvalTick /\ UNCHANGED evalOthers
    \/ EvalRule /\ UNCHANGED evalOthers
    \/ EvalTickEnd /\ UNCHANGED evalOthers
    \/ EvalSleep /\ UNCHANGED evalOthers
    \/ SyncRunEnds /\ UNCHANGED evalOthers

SpecEvalRuns == InitEvalRuns /\ [][NextEvalRuns]_vars

\* Two enabled interval rules never synced before, under the same name or
\* under different names (nothing in add_sync_rule or the table makes the
\* name unique).
EvalTwinLists ==
    {<<SyncRule("i", TRUE, "interval", n1, {}, Time0300, <<>>),
       SyncRule(nm, TRUE, "interval", n2, {}, Time0300, <<>>)>> :
        nm \in {"i", "j"}, n1 \in {1, 2}, n2 \in {1, 2}}

\* A SyncManager just started on such a pair of rules.
EvalTwinsInit ==
    /\ tz_offset = 0
    /\ db_sync_rules \in EvalTwinLists
    /\ cfg_sync_rules = db_sync_rules
    /\ \E start \in EvalStartsLocal : eval_clock = start
    /\ EvalIdle("tick")

InitEvalTwins ==
    EvalTwinsInit /\ ScanPark /\ KeyPark /\ S3Park /\ RotPark /\ SyncPark
        /\ GatePark /\ MonPark /\ TrkPark /\ CallPark /\ RunsPark

SpecEvalTwins == InitEvalTwins /\ [][NextEvalRuns]_vars

trkOthers == <<scanVars, keyVars, s3Vars, rotVars, syncVars, gateVars,
              monVars, evalVars, callVars, runVars>>

\* One tracker, its manager's worker threads, and one reader.
InitTracker ==
    TrkInit /\ ScanPark /\ KeyPark /\ S3Park /\ RotPark /\ SyncPark
        /\ GatePark /\ MonPark /\ EvalPark /\ CallPark /\ RunsPark

NextTracker ==
    \/ TrkCreate /\ UNCHANGED trkOthers
    \/ TrkUpdate /\ UNCHANGED trkOthers
    \/ TrkComplete /\ UNCHANGED trkOthers
    \/ TrkRemove /\ UNCHANGED trkOthers
    \/ TrkClear /\ UNCHANGED trkOthers
    \/ GetActiveTasks /\ UNCHANGED trkOthers

SpecTracker == InitTracker /\ [][NextTracker]_vars

callOthers == <<scanVars, keyVars, s3Vars, rotVars, syncVars, gateVars,
               monVars, evalVars, trkVars, runVars>>

AllParkButRuns ==
    ScanPark /\ KeyPark /\ S3Park /\ RotPark /\ SyncPark /\ GatePark
        /\ MonPark /\ EvalPark /\ TrkPark

AllPark == AllParkButRuns /\ RunsPark

\* _rule_applies_to_folder called once on a drawn folder and rule.
InitApplies == AppliesInit /\ AllPark

NextApplies ==
    \/ CallRuleApplies /\ UNCHANGED callOthers

SpecApplies == InitApplies /\ [][NextApplies]_vars

\* normalize_endpoint called on a drawn endpoint, then on its result.
InitEndpoint == EndpointInit /\ AllPark

NextEndpoint ==
    \/ CallNormalize /\ UNCHANGED callOthers
    \/ CallNormalizeAgain /\ UNCHANGED callOthers

SpecEndpoint == InitEndpoint /\ [][NextEndpoint]_vars

(***************************************************************************)
(* Server mode: server_mode.main beside the monitor thread it starts       *)
(***************************************************************************)

serverOthers == <<scanVars, keyVars, s3Vars, rotVars, syncVars, gateVars,
                 evalVars, trkVars, runVars>>

\* server_mode.py lines 51-52: the BackupManager is constructed; the main
\* thread is about to start the monitor.
ServerInit ==
    /\ MonInit
    /\ call_pc = "main"
    /\ call_args = <<>>
    /\ call_result = NoResult

\* server_mode.py line 55: start_monitoring; the next statement of the
\* main thread is the initial cleanup.
ServerStartMonitoring ==
    /\ call_pc = "main"
    /\ StartMonitoring
    /\ call_pc' = "cleanup"
    /\ UNCHANGED <<call_args, call_result>>

\* server_mode.py lines 59-60: scan_and_clean runs in the main thread to
\* its end and takes some time.
ServerInitialCleanup ==
    /\ call_pc = "cleanup"
    /\ \E d \in ScanDurations : mon_clock' = mon_clock + d
    /\ call_pc' = "serving"
    /\ UNCHANGED <<mon_config, mon_running, workers, mon_log, start_calls,
                   stop_calls, call_args, call_result>>

\* server_mode.py lines 64-71: the interrupt ends the wait and the finally
\* clause stops the monitor.
ServerStop ==
    /\ call_pc = "serving"
    /\ StopMonitoring
    /\ call_pc' = "stopped"
    /\ UNCHANGED <<call_args, call_result>>

InitServer ==
    ServerInit /\ ScanPark /\ KeyPark /\ S3Park /\ RotPark /\ SyncPark
        /\ GatePark /\ EvalPark /\ TrkPark /\ RunsPark

NextServer ==
    \/ ServerStartMonitoring /\ UNCHANGED serverOthers
    \/ ServerInitialCleanup /\ UNCHANGED serverOthers
    \/ ServerStop /\ UNCHANGED serverOthers
    \/ \E w \in 1..Len(workers) : MonTest(w) /\ UNCHANGED monOthers
    \/ \E w \in 1..Len(workers) : MonGate(w) /\ UNCHANGED monOthers
    \/ \E w \in 1..Len(workers) : MonScan(w) /\ UNCHANGED monOthers
    \/ \E w \in 1..Len(workers) : MonSkipLog(w) /\ UNCHANGED monOthers
    \/ \E w \in 1..Len(workers) : MonSleepTest(w) /\ UNCHANGED monOthers
    \/ \E w \in 1..Len(workers) : MonWake(w) /\ UNCHANGED monOthers

SpecServer == InitServer /\ [][NextServer]_vars

(***************************************************************************)
(* run_sync_now on a SyncManager whose loop is or is not running           *)
(***************************************************************************)

runNowOthers == <<scanVars, keyVars, rotVars, gateVars, monVars, evalVars,
                 trkVars, runVars>>

\* The indices the settings window or any caller may pass.
RunNowIndices == {-1, 0, 1}

\* Line 528: 0 <= rule_index < len(rules).
ValidIndex(rule_index, rule_list) ==
    0 <= rule_index /\ rule_index < Len(rule_list)

\* A SyncManager after construction (lines 40-47, running False) or after
\* start() (line 54, running True), its configuration holding the one rule
\* drawn, and a call of run_sync_now about to be made.
RunNowInit ==
    /\ SyncInitRunning(BOOLEAN, SyncBuckets)
    /\ local_dirs = {FolderA, FolderC}
    /\ bucket = {}
    /\ call_pc = "ready"
    /\ call_args \in RunNowIndices
    /\ call_result = NoResult

\* run_sync_now (lines 525-537): for a valid index the _sync_rule thread is
\* started and True returned, otherwise False.
RunSyncNow ==
    /\ call_pc = "ready"
    /\ call_pc' = "returned"
    /\ call_result' = ValidIndex(call_args, <<sync_rule>>)
    /\ UNCHANGED <<call_args, syncVars, s3Vars>>

\* The thread run_sync_now started exists.
RunNowLaunched == call_pc = "returned" /\ call_result

InitRunNow ==
    RunNowInit /\ ScanPark /\ KeyPark /\ RotPark /\ GatePark /\ MonPark
        /\ EvalPark /\ TrkPark /\ RunsPark

NextRunNow ==
    \/ RunSyncNow /\ UNCHANGED runNowOthers
    \/ RunNowLaunched /\ SyncNoBucket /\ UNCHANGED syncOthers
    \/ RunNowLaunched /\ SyncBegin /\ UNCHANGED syncOthers
    \/ RunNowLaunched /\ SyncUpload /\ UNCHANGED syncOthers
    \/ RunNowLaunched /\ SyncLoopEnd /\ UNCHANGED syncOthers
    \/ RunNowLaunched /\ SyncRotate /\ UNCHANGED syncOthers
    \/ RunNowLaunched /\ SyncFinish /\ UNCHANGED syncOthers

SpecRunNow == InitRunNow /\ [][NextRunNow]_vars

runOthers == <<scanVars, keyVars, s3Vars, rotVars, syncVars, gateVars,
              monVars, evalVars, trkVars, callVars>>

\* Two _sync_rule threads of one manager, started in the same second or
\* seconds apart.
InitRuns == RunsInit /\ AllParkButRuns /\ CallPark

NextRuns ==
    \/ RunClockSecond /\ UNCHANGED runOthers
    \/ \E t \in SyncThreads : RunCreateTask(t) /\ UNCHANGED runOthers
    \/ \E t \in SyncThreads : RunUpdateTask(t) /\ UNCHANGED runOthers
    \/ \E t \in SyncThreads : RunCompleteTask(t) /\ UNCHANGED runOthers

SpecRuns == InitRuns /\ [][NextRuns]_vars

(***************************************************************************)
(* Claims                                                                  *)
(***************************************************************************)

\* C9 (as claimed): for every folder name, relative path and run timestamp
\* ts, each key of the run is folder_ts/relative-path with the path's
\* components joined by "/", every file of the run carries the same ts, and
\* the rotator's pattern for the folder name extracts exactly ts from the key.
C9_VersionKeyRoundTrip ==
    key_pc = "matched" =>
        LET ts == strftime(DateTimeOf(key_args.now_local))
        IN \A i \in 1..Len(key_args.rels) :
             /\ s3_keys[i] = key_args.folder_name \o <<"_">> \o ts \o <<"/">>
                                \o StrJoin(key_args.rels[i], "/")
             /\ match_ts[i] = ts

\* C5: in a sync run the engine unlinks a local file only in the iteration
\* whose upload of that file returned success, and only when the rule has
\* delete_after_sync; every local file that is gone since the launch was
\* unlinked in such an iteration, so a file whose upload failed, raised or
\* was never attempted is still there.
C5_DeleteOnlyAfterUpload ==
    /\ \A i \in 1..Len(upload_log) :
          upload_log[i].unlinked =>
             /\ upload_log[i].result = "ok"
             /\ sync_rule.delete_after_sync
    /\ \A f \in local_files0 \ local_files :
          \E i \in 1..Len(upload_log) :
             /\ upload_log[i].file = f
             /\ upload_log[i].unlinked
             /\ upload_log[i].result = "ok"

\* C5 witness: a finished run that unlinked one file after its upload and
\* left in place a file whose upload did not succeed.
C5_Witness ==
    /\ sync_pc = "done"
    /\ sync_rule.delete_after_sync
    /\ \E i \in 1..Len(upload_log) :
          upload_log[i].unlinked /\ upload_log[i].file \notin local_files
    /\ \E j \in 1..Len(upload_log) :
          /\ upload_log[j].result \in {"fail", "raise"}
          /\ upload_log[j].file \in local_files

\* --- the rotation claims speak of keys and timestamps as the spec words
\*     them: a key of folder fn's version ts is fn_ts/...

TsAt(fn, k) == SubSeq(k, Len(fn) + 2, Len(fn) + 17)

IsVersionKey(fn, k) ==
    /\ Len(k) >= Len(fn) + 18
    /\ TsShape(TsAt(fn, k))
    /\ IsPrefix(fn \o <<"_">> \o TsAt(fn, k) \o <<"/">>, k)

\* The distinct version timestamps of the rotated folder in the listing.
ListedVersions ==
    {TsAt(rot_args.folder_name, k) :
        k \in {o \in all_objects : IsVersionKey(rot_args.folder_name, o)}}

\* The versions the rotation asked to delete objects of.
RequestedVersions == {TsAt(rot_args.folder_name, k) : k \in delete_requests}

\* Whole days from the timestamp, read as a date, to now exceed d.
OlderThanDays(ts, d) ==
    /\ strptimeOk(ts)
    /\ rot_args.now - MinutesOf(TsFields(ts)) >= (d + 1) * MinutesPerDay

\* At least m listed versions are newer than ts.
RankAtLeast(ts, m) ==
    Cardinality({s \in ListedVersions : StrLess(ts, s)}) >= m

PolicySelects(ts) ==
    \/ rot_args.max_versions > 0 /\ RankAtLeast(ts, rot_args.max_versions)
    \/ rot_args.max_version_age_days > 0
         /\ OlderThanDays(ts, rot_args.max_version_age_days)

MinOf(a, b) == IF a <= b THEN a ELSE b

\* C6: a rotation for a folder name requests the deletion only of listed
\* objects whose key is a version key of that folder name and whose version
\* the count or age policy selects; no other object of the listing is named
\* in a delete request; with max_versions = 0 and max_version_age_days = 0
\* it requests nothing.
C6_RotationFrame ==
    rot_pc = "done" =>
        /\ \A k \in delete_requests :
             /\ k \in all_objects
             /\ IsVersionKey(rot_args.folder_name, k)
             /\ PolicySelects(TsAt(rot_args.folder_name, k))
        /\ \A k \in rot_before :
             (~IsVersionKey(rot_args.folder_name, k)
                \/ ~PolicySelects(TsAt(rot_args.folder_name, k)))
                => k \notin delete_requests
        /\ (rot_args.max_versions = 0 /\ rot_args.max_version_age_days = 0)
              => delete_requests = {}

\* C6 witness: a rotation that requested deletions while the bucket held
\* another folder's version, a key that runs on after the timestamp, and a
\* version of the rotated folder that was kept.
C6_Witness ==
    /\ rot_pc = "done"
    /\ delete_requests # {}
    /\ \E k \in bucket : ~IsVersionKey(rot_args.folder_name, k)
    /\ DbName \o <<"_">> \o TsAged(40 * 1440) \o <<".", "t">> \in bucket
    /\ ListedVersions \ RequestedVersions # {}

\* C7: with max_versions = m > 0 and no age limit, of the N listed versions
\* exactly N - min(m, N) are selected, min(m, N) survive, and every selected
\* version is older than every surviving one.
C7_RotationByCount ==
    (rot_pc = "done" /\ rot_args.max_versions > 0
        /\ rot_args.max_version_age_days = 0) =>
        LET N == Cardinality(ListedVersions)
            keep == MinOf(rot_args.max_versions, N)
        IN /\ RequestedVersions \subseteq ListedVersions
           /\ Cardinality(RequestedVersions) = N - keep
           /\ Cardinality(ListedVersions \ RequestedVersions) = keep
           /\ \A r \in RequestedVersions :
              \A v \in ListedVersions \ RequestedVersions :
                 /\ StrLess(r, v)
                 /\ (strptimeOk(r) /\ strptimeOk(v))
                       => MinutesOf(TsFields(r)) < MinutesOf(TsFields(v))

\* C7 witness: more versions listed than max_versions, some selected.
C7_Witness ==
    /\ rot_pc = "done"
    /\ rot_args.max_versions = 2
    /\ rot_args.max_version_age_days = 0
    /\ Cardinality(ListedVersions) >= 4
    /\ Cardinality(RequestedVersions) >= 2

\* C8: with max_versions = 0 and max_version_age_days = d > 0, a listed
\* version is selected if and only if its timestamp parses and its age in
\* whole days against the current time exceeds d.
C8_RotationByAge ==
    (rot_pc = "done" /\ rot_args.max_versions = 0
        /\ rot_args.max_version_age_days > 0) =>
        \A ts \in ListedVersions :
           ts \in RequestedVersions
              <=> OlderThanDays(ts, rot_args.max_version_age_days)

\* C8 witness: an age-only rotation that selected a version, kept a version
\* aged exactly the limit, and passed over a timestamp that is no date.
C8_Witness ==
    /\ rot_pc = "done"
    /\ rot_args.max_versions = 0
    /\ rot_args.max_version_age_days = 1
    /\ TsAged(2880) \in RequestedVersions
    /\ TsAged(1440) \in ListedVersions \ RequestedVersions
    /\ BadTs \in ListedVersions \ RequestedVersions

(***************************************************************************)
(* Claims about the retention scan                                         *)
(***************************************************************************)

\* The scan's error and deleted entries so far, the folder under way
\* included.
ErrorsOf(p) == results[p].errors \o folder_results[p].errors

DeletedOf(p) == results[p].deleted \o folder_results[p].deleted

EntriesAbout(log, path) == {i \in 1..Len(log) : log[i].path = path}

SeqRange(seq) == {seq[i] : i \in 1..Len(seq)}

\* What re.fullmatch and fnmatch make of each drawn pattern on each drawn
\* name, worked out once.
DrawnPatterns ==
    {[pattern |-> r.pattern, pattern_type |-> r.pattern_type] :
        r \in FirstRules \cup SecondRules}

NameMatchTable ==
    [pt \in DrawnPatterns |->
        [n \in SeqRange(NameList) |->
            IF pt.pattern_type = "regex" THEN ReFullmatch(pt.pattern, n)
            ELSE Fnmatch(n, pt.pattern)]]

\* The rule's pattern on the entry's name, and the entry's age against the
\* rule's limit, stated on the drawn data.
NameMatches(path, rule) ==
    NameMatchTable[[pattern |-> rule.pattern,
                    pattern_type |-> rule.pattern_type]][path.name]

IsExpired(path, rule) ==
    /\ entries[path].readable
    /\ scan_now - entries[path].mtime >= rule.max_age_minutes

C2_DeleteOnlyMatchedExpired ==
    \A p \in ScanProcs :
       /\ \A i \in 1..Len(calls[p]) :
             LET c == calls[p][i]
             IN /\ \E j \in 1..Len(rules) : rules[j] = c.rule
                /\ c.rule.enabled
                /\ RuleAppliesToFolder(c.path.folder, c.rule)
                /\ NameMatches(c.path, c.rule)
                /\ IsExpired(c.path, c.rule)
       /\ \A q \in DOMAIN entries :
             (~\E j \in 1..Len(rules) :
                  /\ rules[j].enabled
                  /\ RuleAppliesToFolder(q.folder, rules[j])
                  /\ NameMatches(q, rules[j])
                  /\ IsExpired(q, rules[j]))
                => q \in existing

\* C2 witness: a finished scan that deleted something, and left an expired
\* entry that only a disabled rule matches.
C2_Witness ==
    /\ scan_pc["monitor"] = "done"
    /\ DOMAIN entries \ existing # {}
    /\ \E q \in existing :
          /\ \E j \in 1..Len(rules) :
                ~rules[j].enabled /\ NameMatches(q, rules[j])
                   /\ IsExpired(q, rules[j])
          /\ \A j \in 1..Len(rules) :
                rules[j].enabled => ~NameMatches(q, rules[j])

\* The matched-and-expired candidates of an evaluation, among the paths the
\* rule looked at.
Candidates(e) ==
    {q \in e.looked : NameMatches(q, e.rule) /\ IsExpired(q, e.rule)}

\* C3: a rule with keep_latest = k on N candidates spares min(k, N) of
\* them, hands the other N - min(k, N) to deletion, and no spared candidate
\* is older than a deleted one; once the scan is over each of the others
\* was handed to _delete_path.
C3_KeepLatest ==
    \A p \in ScanProcs : \A i \in 1..Len(evals[p]) :
       LET e == evals[p][i]
           N == Cardinality(Candidates(e))
           k == e.rule.keep_latest
           spared == MinOf(k, N)
       IN /\ Cardinality(e.to_keep) = spared
          /\ Len(e.to_delete) = N - spared
          /\ Cardinality(SeqRange(e.to_delete)) = N - spared
          /\ e.to_keep \cup SeqRange(e.to_delete) = Candidates(e)
          /\ \A s \in e.to_keep : \A d \in SeqRange(e.to_delete) :
                entries[s].mtime >= entries[d].mtime
          /\ scan_pc[p] = "done" =>
                \A d \in SeqRange(e.to_delete) :
                   \E j \in 1..Len(calls[p]) :
                      calls[p][j].path = d /\ calls[p][j].rule = e.rule

\* C3 witness: a finished scan in which a rule with keep_latest = 1 had
\* three candidates of three ages, spared the newest and deleted two.
C3_Witness ==
    /\ scan_pc["monitor"] = "done"
    /\ \E i \in 1..Len(evals["monitor"]) :
          LET e == evals["monitor"][i]
          IN /\ e.rule.keep_latest = 1
             /\ Cardinality(Candidates(e)) = 3
             /\ Cardinality({entries[q].mtime : q \in Candidates(e)}) = 3
             /\ Len(e.to_delete) = 2

\* C4: in one folder pass the rules are evaluated in list order; a later
\* rule looks at no path an earlier rule kept or chose to delete, a kept
\* path is never handed to _delete_path, and no path is handed twice.
C4_FirstClaimWins ==
    \A p \in ScanProcs :
       /\ \A i \in 1..Len(evals[p]) : \A j \in 1..Len(evals[p]) :
             (i < j /\ evals[p][i].folder_idx = evals[p][j].folder_idx) =>
                /\ \E a \in 1..Len(rules) : \E b \in 1..Len(rules) :
                      a < b /\ rules[a] = evals[p][i].rule
                            /\ rules[b] = evals[p][j].rule
                /\ evals[p][j].looked
                      \cap (evals[p][i].to_keep
                            \cup SeqRange(evals[p][i].to_delete)) = {}
       /\ \A i \in 1..Len(evals[p]) : \A j \in 1..Len(calls[p]) :
             evals[p][i].folder_idx = calls[p][j].folder_idx =>
                calls[p][j].path \notin evals[p][i].to_keep
       /\ \A i \in 1..Len(calls[p]) : \A j \in 1..Len(calls[p]) :
             (i # j /\ calls[p][i].folder_idx = calls[p][j].folder_idx) =>
                calls[p][i].path # calls[p][j].path

\* C4 witness: a finished scan whose first rule kept a path and deleted
\* another, both of which the second rule matches and finds expired, and
\* whose second rule deleted a third path.
C4_Witness ==
    /\ scan_pc["monitor"] = "done"
    /\ Len(evals["monitor"]) = 2
    /\ LET e1 == evals["monitor"][1]
           e2 == evals["monitor"][2]
       IN /\ \E s \in e1.to_keep :
                /\ NameMatches(s, e2.rule) /\ IsExpired(s, e2.rule)
                /\ s \in existing
          /\ \E d \in SeqRange(e1.to_delete) :
                NameMatches(d, e2.rule) /\ IsExpired(d, e2.rule)
          /\ e2.to_delete # <<>>

\* The files of the successful deletions of the rule under way.
RECURSIVE FilesDeleted(_, _, _)
FilesDeleted(log, fidx, rule) ==
    IF log = <<>> THEN 0
    ELSE (IF /\ Head(log).folder_idx = fidx
             /\ Head(log).rule = rule
             /\ Head(log).outcome \in {"perm_ok", "trash_ok"}
          THEN entries[Head(log).path].nfiles ELSE 0)
         + FilesDeleted(Tail(log), fidx, rule)

\* C10: send2trash raised on a path: the path stays, one error entry and no
\* deleted entry are recorded for it, neither unlink nor rmtree is tried,
\* and the task's processed files are those of the successful deletions
\* only.
C10_TrashRaises ==
    \A p \in ScanProcs :
       /\ \A i \in 1..Len(calls[p]) :
             LET c == calls[p][i]
             IN c.outcome = "trash_err" =>
                   /\ c.path \in existing
                   /\ ~c.permanent_attempted
                   /\ ~c.progressed
                   /\ Cardinality(EntriesAbout(ErrorsOf(p), c.path)) = 1
                   /\ EntriesAbout(DeletedOf(p), c.path) = {}
       /\ (scan_pc[p] = "delete" /\ task_id[p] \in DOMAIN active_tasks) =>
             active_tasks[task_id[p]].processed_files =
                FilesDeleted(calls[p], folder_idx[p],
                             applicable_rules[p][rule_idx[p]])

\* C10 witness: a rule's task still tracked after send2trash raised on one
\* of its paths and succeeded on another.
C10_Witness ==
    /\ scan_pc["monitor"] = "delete"
    /\ task_id["monitor"] \in DOMAIN active_tasks
    /\ active_tasks[task_id["monitor"]].processed_files > 0
    /\ \E i \in 1..Len(calls["monitor"]) :
          /\ calls["monitor"][i].outcome = "trash_err"
          /\ calls["monitor"][i].rule = applicable_rules["monitor"][rule_idx["monitor"]]

\* C11: with scheduling disabled, and with scheduling enabled but an empty
\* schedule list, the gate is due whatever the time, weekday and interval.
C11_DueWithoutSchedule ==
    (/\ gate_pc = "done"
     /\ \/ ~gate_args.schedule_enabled
        \/ gate_args.schedules = <<>>) => gate_due

\* C11 witness: the gate returned on an enabled, empty schedule list.
C11_Witness ==
    /\ gate_pc = "done"
    /\ gate_args.schedule_enabled
    /\ gate_args.schedules = <<>>
    /\ gate_due

\* An entry whose time has the shape HH:MM with HH <= 23 and MM <= 59.
WellFormedTime(s) ==
    /\ Len(s) = 5
    /\ s[3] = ":"
    /\ \A i \in {1, 2, 4, 5} : s[i] \in Digits
    /\ Num2(s, 1) <= 23
    /\ Num2(s, 4) <= 59

\* The distance in minutes between now and HH:MM on now's date.
DistanceToday(now, s) ==
    LET at == Num2(s, 1) * 60 + Num2(s, 4)
        tod == now % MinutesPerDay
    IN IF tod >= at THEN tod - at ELSE at - tod

\* C12: with scheduling enabled and a non-empty list of well-formed entries
\* the gate is due exactly when some entry holds today's weekday and its
\* HH:MM on today's date lies within half the check interval of now,
\* the boundary included.
C12_DueIffEntryMatches ==
    (/\ gate_pc = "done"
     /\ gate_args.schedule_enabled
     /\ gate_args.schedules # <<>>
     /\ \A i \in 1..Len(gate_args.schedules) :
           WellFormedTime(gate_args.schedules[i].time)) =>
        (gate_due <=>
            \E i \in 1..Len(gate_args.schedules) :
               /\ Weekday(gate_args.now) \in gate_args.schedules[i].days
               /\ 2 * DistanceToday(gate_args.now, gate_args.schedules[i].time)
                     <= gate_args.check_interval_minutes)

\* C12 witness: the gate was due on a list of two well-formed entries of
\* which only the second matches, at exactly half the interval.
C12_Witness ==
    /\ gate_pc = "done"
    /\ gate_args.schedule_enabled
    /\ gate_due
    /\ Len(gate_args.schedules) = 2
    /\ \A i \in 1..2 : WellFormedTime(gate_args.schedules[i].time)
    /\ Weekday(gate_args.now) \notin gate_args.schedules[1].days
    /\ 2 * DistanceToday(gate_args.now, gate_args.schedules[2].time)
          = gate_args.check_interval_minutes

\* The scheduled instants of a configuration on the days from..to: HH:MM of
\* each well-formed entry on each day whose weekday the entry holds.
ScheduledInstants(config, from, to) ==
    {day * MinutesPerDay + Num2(config.schedules[i].time, 1) * 60
         + Num2(config.schedules[i].time, 4) :
       <<i, day>> \in
          {x \in (1..Len(config.schedules)) \X (from..to) :
              /\ WellFormedTime(config.schedules[x[1]].time)
              /\ Weekday(x[2] * MinutesPerDay) \in config.schedules[x[1]].days}}

AllAlive == \A w \in 1..Len(workers) : workers[w].pc \notin {"dead", "exited"}

\* C13 (as claimed): while the monitor runs with scheduling enabled, every
\* scheduled instant between the loop's first tick and half an interval
\* before its latest tick has had a tick, within half an interval of it,
\* at which the gate was due.
C13_NoInstantMissed ==
    (/\ mon_config.schedule_enabled
     /\ stop_calls = 0
     /\ AllAlive
     /\ mon_log # <<>>) =>
        LET first == mon_log[1].now
            last == mon_log[Len(mon_log)].now
        IN \A at \in ScheduledInstants(mon_config, first \div MinutesPerDay,
                                       last \div MinutesPerDay) :
              (/\ at >= first
               /\ 2 * (last - at) > mon_config.check_interval_minutes) =>
                  \E k \in 1..Len(mon_log) :
                     /\ mon_log[k].due
                     /\ 2 * Abs(mon_log[k].now - at)
                           <= mon_config.check_interval_minutes

\* C14 (as claimed): as long as stop_monitoring has not been called, any
\* number of start_monitoring calls leaves one monitor_loop thread.
C14_StartIdempotent == stop_calls = 0 => Len(workers) <= 1

\* After stop with no later start every thread has ended.
StopTerminates ==
    ~mon_running ~>
        (mon_running
            \/ \A w \in 1..Len(workers) : workers[w].pc \in {"exited", "dead"})

\* A scan in progress runs to its end.
ScanCompletes ==
    \A w \in 1..MaxWorkers :
        (w <= Len(workers) /\ workers[w].pc = "scan")
            ~> (w <= Len(workers) /\ workers[w].pc = "sleep_test")

\* C15 (as claimed): after stop_monitoring with no later start_monitoring
\* no thread begins a scan, every thread ends, and a scan in progress runs
\* to its end.
C15_NoScanAfterStop ==
    /\ [](\A w \in 1..Len(workers) : workers[w].late = 0)
    /\ StopTerminates
    /\ ScanCompletes

\* C15 (amended): after stop_monitoring with no later start_monitoring each
\* thread begins at most one further scan, every thread ends, and a scan in
\* progress runs to its end.
C15_AtMostOneScanAfterStop ==
    /\ [](\A w \in 1..Len(workers) : workers[w].late <= 1)
    /\ StopTerminates
    /\ ScanCompletes

\* C15 witness: a thread that began a scan after the flag was cleared has
\* finished it and left the loop.
C15_Witness ==
    /\ ~mon_running
    /\ \E w \in 1..Len(workers) :
          workers[w].pc = "exited" /\ workers[w].late = 1

\* C16 (as claimed): no exception raised within a tick ends a monitor_loop
\* thread.
C16_TickExceptionsCaught ==
    \A w \in 1..Len(workers) : workers[w].pc # "dead"

\* The watched folders whose scan has to leave an error: missing, refused
\* by stat(), not listable, or raising while their rules are applied.
TroubledFolder(p, folder) ==
    \/ folder \notin existing_dirs
    \/ folder \in unstatable_dirs
    \/ /\ ApplicableRules(folder, scan_rules[p]) # <<>>
       /\ folder \in unlistable_dirs \cup raising_dirs

\* The errors scan_and_clean and _process_folder record about a folder
\* (lines 60, 77, 194).
FolderErrors == {"folder_missing", "folder_access", "folder_error"}

\* C17 (as claimed): scan_and_clean never raises; when it returns, every
\* watched folder that is missing, inaccessible or whose processing raised
\* has an error entry, and every other watched folder a rule applies to has
\* had its rules evaluated.
C17_FolderErrorsContained ==
    \A p \in ScanProcs :
       /\ scan_pc[p] # "raised"
       /\ scan_pc[p] = "done" =>
             \A i \in 1..Len(watch_folders) :
                IF TroubledFolder(p, watch_folders[i])
                THEN \E k \in 1..Len(results[p].errors) :
                        /\ results[p].errors[k].what \in FolderErrors
                        /\ results[p].errors[k].path = watch_folders[i]
                ELSE ApplicableRules(watch_folders[i], scan_rules[p]) # <<>>
                        => \E k \in 1..Len(evals[p]) :
                              evals[p][k].folder_idx = i

(***************************************************************************)
(* Claims about the sync evaluator                                         *)
(***************************************************************************)

\* The evaluations of enabled rules of one schedule type.
EvalsOf(schedule_type) ==
    {k \in 1..Len(eval_log) :
        /\ eval_log[k].rule.schedule_type = schedule_type
        /\ eval_log[k].rule.enabled}

\* HH:MM of the rule on the local day of the evaluation, in local seconds.
ScheduledOn(e) ==
    (e.now_local \div SecondsPerDay) * SecondsPerDay
        + Num2(e.rule.schedule_time, 1) * 3600
        + Num2(e.rule.schedule_time, 4) * 60

\* C18 (as claimed): a schedule rule is launched at most once on one local
\* calendar day, and no launch is before that day's HH:MM.
C18_OncePerDay ==
    /\ \A k1, k2 \in EvalsOf("schedule") :
          (/\ k1 < k2
           /\ eval_log[k1].idx = eval_log[k2].idx
           /\ eval_log[k1].outcome = "due"
           /\ eval_log[k1].now_local \div SecondsPerDay
                 = eval_log[k2].now_local \div SecondsPerDay)
              => eval_log[k2].outcome # "due"
    /\ \A k \in EvalsOf("schedule") :
          (/\ eval_log[k].outcome = "due"
           /\ WellFormedTime(eval_log[k].rule.schedule_time))
              => eval_log[k].now_local >= ScheduledOn(eval_log[k])

\* The last sync the claims speak of: the one in memory, else the one of
\* the rule's record when it holds a date; <<>> when there is none.
ClaimedLastSync(e) ==
    IF e.rule.name \in DOMAIN e.memo THEN <<e.memo[e.rule.name]>>
    ELSE IF e.rule.last_sync \in {<<>>, <<NotIsoText>>} THEN <<>>
    ELSE fromisoformat(e.rule.last_sync[1])

\* C19: a schedule rule with a well-formed time is due exactly when the
\* local weekday's token is in its day set, the local time is at or after
\* today's HH:MM, and either its last sync is an instant before today's
\* HH:MM or it has none and the local time is at most 5 minutes past
\* HH:MM; with an empty day set it is never due.
C19_ScheduleDueIff ==
    \A k \in EvalsOf("schedule") :
       LET e == eval_log[k]
           last == ClaimedLastSync(e)
       IN WellFormedTime(e.rule.schedule_time) =>
             /\ e.outcome \in {"due", "not_due"}
             /\ e.outcome = "due" <=>
                   /\ day_map[Weekday(e.now_local \div 60) + 1]
                         \in e.rule.schedule_days
                   /\ e.now_local >= ScheduledOn(e)
                   /\ \/ last # <<>>
                            /\ last[1] < ScheduledOn(e) - tz_offset
                      \/ last = <<>>
                            /\ e.now_local <= ScheduledOn(e) + 300
             /\ e.rule.schedule_days = {} => e.outcome = "not_due"

\* C19 witness: a rule without last sync found due at the last second of
\* the window, and one with a last sync of the day before found due after
\* the window.
C19_Witness ==
    \E k \in EvalsOf("schedule") :
       /\ WellFormedTime(eval_log[k].rule.schedule_time)
       /\ eval_log[k].outcome = "due"
       /\ \/ /\ eval_log[k].last_sync = <<>>
             /\ eval_log[k].now_local = ScheduledOn(eval_log[k]) + 300
             /\ tz_offset # 0
          \/ /\ eval_log[k].last_sync # <<>>
             /\ eval_log[k].now_local > ScheduledOn(eval_log[k]) + 300
             /\ tz_offset # 0

\* C20: an enabled interval rule is due at a tick exactly when it has no
\* last sync, in memory or in its record, or at least interval_minutes
\* have passed since it; a rule that is not enabled is never launched.
C20_IntervalDueIff ==
    /\ \A k \in EvalsOf("interval") :
          LET e == eval_log[k]
              last == ClaimedLastSync(e)
          IN e.outcome = (IF \/ last = <<>>
                             \/ e.now - last[1] >= e.rule.interval_minutes * 60
                          THEN "due" ELSE "not_due")
    /\ \A k \in 1..Len(eval_log) :
          ~eval_log[k].rule.enabled => eval_log[k].outcome = "skipped"

\* C20 witness: a rule whose record was reloaded without last sync is held
\* back by the one in memory, and is due when exactly interval_minutes
\* have passed.
C20_Witness ==
    \E k \in EvalsOf("interval") :
       /\ eval_log[k].rule.last_sync = <<>>
       /\ eval_log[k].rule.name \in DOMAIN eval_log[k].memo
       /\ eval_log[k].now - eval_log[k].memo[eval_log[k].rule.name]
             = eval_log[k].rule.interval_minutes * 60
       /\ eval_log[k].outcome = "due"

\* The launches of the rule at position idx, as positions of eval_log.
LaunchesOf(idx) ==
    {k \in 1..Len(eval_log) :
        eval_log[k].idx = idx /\ eval_log[k].outcome = "due"}

\* C21 (as claimed): within one run of the program a due condition is
\* launched once: two launches of a rule are interval_minutes apart for
\* an interval rule, and on different local days for a schedule rule.
C21_OneLaunchPerDueCondition ==
    restarts = 0 =>
       \A idx \in 1..Len(db_sync_rules) :
          \A k1, k2 \in LaunchesOf(idx) :
             k1 < k2 =>
                IF eval_log[k1].rule.schedule_type = "schedule"
                THEN eval_log[k1].now_local \div SecondsPerDay
                        # eval_log[k2].now_local \div SecondsPerDay
                ELSE eval_log[k2].now - eval_log[k1].now
                        >= eval_log[k1].rule.interval_minutes * 60

\* The ticks that returned: every rule of the tick was reached.
CompletedTicks ==
    {t \in 1..eval_ticks :
        /\ t < eval_ticks \/ eval_pc \in {"sleep", "tick"}
        /\ \A k \in 1..Len(eval_log) :
              eval_log[k].tick = t => eval_log[k].outcome # "raises"}

\* The ticks whose for loop is over, by return or by an exception.
EndedTicks ==
    {t \in 1..eval_ticks : t < eval_ticks \/ eval_pc \in {"sleep", "tick"}}

\* Every rule of the tick was evaluated and every due one started as a
\* thread, and the loop is not held up at a rule.
TicksEvaluateAll(ticks) ==
    /\ \A t \in ticks :
          \E rs \in {db_sync_rules} :
             \A idx \in 1..Len(rs) :
                \E k \in 1..Len(eval_log) :
                   /\ eval_log[k].tick = t
                   /\ eval_log[k].idx = idx
    /\ \A k \in 1..Len(eval_log) :
          eval_log[k].outcome = "due" <=>
             \E i \in 1..Len(sync_runs) :
                /\ sync_runs[i].tick = eval_log[k].tick
                /\ sync_runs[i].idx = eval_log[k].idx
    /\ (eval_pc = "rules" /\ eval_idx <= Len(eval_rules)) => ENABLED EvalRule

SyncTaskTracked == "sync_task" \in active_sync_tasks

\* C23: every sync run that created its task eventually removes it from
\* the tracker, whatever the uploads did (succeeded, failed, raised) and
\* whether or not stop() interrupted the run.
C23_TaskEventuallyRemoved == SyncTaskTracked ~> ~SyncTaskTracked

\* A run that created its task, had a failed upload, was interrupted by
\* stop() before its last file, and has completed the task.
C23_Witness ==
    /\ sync_pc = "done"
    /\ ~sync_running
    /\ ~SyncTaskTracked
    /\ file_idx <= Len(files_to_sync)
    /\ \E i \in 1..Len(upload_log) : upload_log[i].result # "ok"

(***************************************************************************)
(* Claims about partial failures of a sync run                             *)
(***************************************************************************)

UploadsOk == {i \in 1..Len(upload_log) : upload_log[i].result = "ok"}

UploadLoopLeft == sync_pc \in {"rotate", "finish", "done"}

\* C24: a failure of the object storage concerns one item and never aborts
\* the batch.  The uploads attempted are the enumerated files in their
\* order with none left out, and a run that was not stopped has attempted
\* them all, whatever failed before; every object of every version the
\* rotation selected has had its delete call, whatever failed before; and
\* synced_count and each deleted_count are the numbers of successes.
C24_FailuresPerItem ==
    /\ Len(upload_log) <= Len(files_to_sync)
    /\ \A i \in 1..Len(upload_log) :
           /\ upload_log[i].file = files_to_sync[i].file
           /\ upload_log[i].key = files_to_sync[i].s3_key
    /\ (UploadLoopLeft /\ sync_running)
          => Len(upload_log) = Len(files_to_sync)
    /\ synced_count = Cardinality(UploadsOk)
    /\ \A r \in deleted_log :
           /\ r.objects_to_delete \subseteq delete_requests
           /\ r.deleted_count = Cardinality(r.objects_to_delete \ bucket)

\* A finished run that was not stopped, with an upload that succeeded
\* after one that failed or raised, and a rotated-away version of which
\* one delete succeeded and another failed.
C24_Witness ==
    /\ sync_pc = "done"
    /\ sync_running
    /\ \E i, k \in 1..Len(upload_log) :
          /\ i < k
          /\ upload_log[i].result \in {"fail", "raise"}
          /\ upload_log[k].result = "ok"
    /\ \E r \in deleted_log :
          /\ r.deleted_count > 0
          /\ r.deleted_count < Cardinality(r.objects_to_delete)

(***************************************************************************)
(* Claims about the task tracker's readers                                 *)
(***************************************************************************)

\* C25: get_active_tasks returns a snapshot copy: the task records of a
\* returned list hold what they held when the list was returned, whatever
\* a worker has since updated, completed or removed.
C25_SnapshotIsolated ==
    \A i \in 1..Len(trk_returned) : trk_heap[trk_returned[i]] = trk_seen[i]

(***************************************************************************)
(* Claims about the rule matcher                                           *)
(***************************************************************************)

AgeMinutes(q) == scan_now - entries[q].mtime

Chosen(e) == e.to_keep \cup SeqRange(e.to_delete)

\* C26: the expiry boundary is inclusive.  Among the paths a rule looked
\* at and whose name it matches, one whose age in minutes equals the
\* rule's max_age_minutes is expired (a candidate of the rule), and one
\* that is one minute younger than the threshold is not.
C26_ExpiryInclusive ==
    \A p \in ScanProcs : \A i \in 1..Len(evals[p]) :
       LET e == evals[p][i]
       IN \A q \in e.looked :
             (NameMatches(q, e.rule) /\ entries[q].readable) =>
                /\ AgeMinutes(q) = e.rule.max_age_minutes => q \in Chosen(e)
                /\ AgeMinutes(q) = e.rule.max_age_minutes - 1
                      => q \notin Chosen(e)

\* A rule with a threshold of two minutes that took a path aged two
\* minutes and left one aged one minute.
C26_Witness ==
    \E i \in 1..Len(evals["monitor"]) :
       LET e == evals["monitor"][i]
       IN /\ e.rule.max_age_minutes = 2
          /\ \E q, y \in e.looked :
                /\ NameMatches(q, e.rule) /\ NameMatches(y, e.rule)
                /\ entries[q].readable /\ entries[y].readable
                /\ AgeMinutes(q) = 2 /\ q \in SeqRange(e.to_delete)
                /\ AgeMinutes(y) = 1 /\ y \notin Chosen(e)

\* On a POSIX system: a is a proper ancestor of f when f continues a with
\* a further component; the root already ends with the separator.
IsAncestorPath(a, f) ==
    /\ a # f
    /\ IF a = PathRoot THEN IsPrefix(a, f) ELSE IsPrefix(a \o <<"/">>, f)

\* C27: a rule applies to a folder if and only if its folders list
\* contains "*", or the folder's absolute path, or an ancestor of the
\* folder (a sibling whose name merely starts with the same characters
\* is none); a rule with an empty folders list applies to no folder.
C27_AppliesIff ==
    call_pc = "returned" =>
       LET folder == call_args.folder
           folders == call_args.rule.folders
       IN call_result =
             (/\ folders # <<>>
              /\ \E i \in 1..Len(folders) :
                    \/ folders[i] = Star
                    \/ folders[i] = folder
                    \/ IsAncestorPath(folders[i], folder))

(***************************************************************************)
(* Claims about the scan's accounting                                      *)
(***************************************************************************)

\* The watched folders with at least one applicable enabled rule.
RuledFolders ==
    {watch_folders[i] : i \in
        {j \in 1..Len(watch_folders) :
            ApplicableRules(watch_folders[j], EnabledRules(rules)) # <<>>}}

\* The regular files directly in those folders when the scan began.
RuledFiles ==
    {q \in DOMAIN entries : entries[q].kind = "file" /\ q.folder \in RuledFolders}

\* C28: the total_scanned of a scan is the number of depth-1 regular files
\* of the watched folders that have an applicable enabled rule, each file
\* counted once however many rules apply to its folder (stated for the
\* scans in which every folder could be read).
C28_TotalScannedCountsFiles ==
    (/\ scan_pc["monitor"] = "done"
     /\ unstatable_dirs = {}
     /\ raising_dirs = {}
     /\ RuledFolders \cap unlistable_dirs = {})
       => results["monitor"].total_scanned = Cardinality(RuledFiles)

\* new is old with one entry more, about the path.
AppendedOne(old, new, path) ==
    /\ Len(new) = Len(old) + 1
    /\ SubSeq(new, 1, Len(old)) = old
    /\ new[Len(new)].path = path

\* What one call of _delete_path by the scan p did on this step.
DeleterRecordsOnce(p) ==
    LET c == calls'[p][Len(calls'[p])]
        before == folder_results[p]
        after == folder_results'[p]
    IN IF c.path \notin existing
       THEN /\ after = before
            /\ existing' = existing
            /\ scan_pc'[p] = "delete"
       ELSE \/ /\ c.path \notin existing'
               /\ AppendedOne(before.deleted, after.deleted, c.path)
               /\ after.errors = before.errors
            \/ /\ c.path \in existing'
               /\ AppendedOne(before.errors, after.errors, c.path)
               /\ after.deleted = before.deleted

Normalised == call_result[1]

Idempotent == Len(call_result) = 2 => call_result[2] = call_result[1]

LoopsAlive == {w \in 1..Len(workers) : workers[w].pc \notin {"exited", "dead"}}

\* C31: after any sequence of start and stop calls, a stop immediately
\* followed by a start while the old worker still sleeps included, at
\* most one loop is alive and ticking: while the running flag is set no
\* two monitor_loop threads are inside their loop (stated here for the
\* retention monitor).
C31_AtMostOneLoop == mon_running => Cardinality(LoopsAlive) <= 1

\* The monitor_loop threads inside scan_and_clean.
LoopsScanning == {w \in 1..Len(workers) : workers[w].pc = "scan"}

\* C32: scans that are not user-triggered never overlap: in server mode,
\* where main starts the monitor and then runs the initial cleanup, the
\* cleanup is never in progress while a monitor_loop thread is inside its
\* scan_and_clean, and no two monitor threads scan at once.
C32_NoScanOverlap ==
    /\ Cardinality(LoopsScanning) <= 1
    /\ call_pc = "cleanup" => LoopsScanning = {}

\* C33: a DeleteTask created by a scan stays in the tracker, its processed
\* files being those the scan has deleted under the task's rule, until
\* that same scan completes it: while a scan is deleting the paths of a
\* rule for which it created a task, the task is tracked and counts that
\* scan's successful deletions, whatever another scan_and_clean execution
\* running at the same time does.
C33_TaskStaysTracked ==
    \A p \in ScanProcs :
       (scan_pc[p] = "delete" /\ task_id[p] # NoTask) =>
          /\ task_id[p] \in DOMAIN active_tasks
          /\ active_tasks[task_id[p]].processed_files =
                FilesDeleted(calls[p], folder_idx[p],
                             applicable_rules[p][rule_idx[p]])

\* C34: at most one sync run of a given rule is executing at any time: no
\* two _sync_rule threads that are still running were launched for the
\* same rule, also when the rule's interval is shorter than a run lasts.
C34_OneRunPerRule ==
    \A a, b \in RunningSyncs(sync_runs) :
       sync_runs[a].idx = sync_runs[b].idx => a = b

\* C35: run_sync_now with a valid index returns true and the run it
\* launches attempts the upload of every enumerated file, whether the
\* manager's loop is running or not; with an invalid index it returns
\* false and launches nothing.
C35_RunNowUploadsAll ==
    call_pc = "returned" =>
       /\ call_result = (call_args = 0)
       /\ ~call_result =>
             sync_pc = "idle" /\ upload_log = <<>> /\ active_sync_tasks = {}
       /\ (call_result /\ UploadLoopLeft) =>
             Len(upload_log) = Len(files_to_sync)

\* C36: distinct sync rules are scheduled independently: an enabled
\* interval rule that has never been synced (its own last_sync is empty) is
\* launched by the tick that evaluates it, whatever other rule the same
\* tick has launched before it, a rule of the same name included.
C36_RulesIndependent ==
    \A k \in EvalsOf("interval") :
       (eval_log[k].rule.enabled /\ eval_log[k].rule.last_sync = <<>>) =>
          eval_log[k].outcome = "due"

\* The _sync_rule threads between _create_task and _complete_task.
RunsInProgress == {t \in SyncThreads : sync_threads[t].pc = "running"}

\* C37: two sync runs in progress at the same time have distinct task ids,
\* and the task of each run in progress is listed, is the dict that run
\* created and carries that run's processed count: completing or creating
\* the other run's task never removes or overwrites it.
C37_DistinctTaskIds ==
    \A t \in RunsInProgress :
       LET id == sync_threads[t].task_id
       IN /\ \A u \in RunsInProgress \ {t} : sync_threads[u].task_id # id
          /\ id \in DOMAIN _active_tasks
          /\ _active_tasks[id].owner = t
          /\ _active_tasks[id].processed = sync_threads[t].processed

\* C38: within one sync run two distinct local files never map to the same
\* object key, and no upload of the run goes to a key an earlier upload of
\* the run went to, also when the rule lists two folders of the same base
\* name.
C38_KeysDistinct ==
    /\ \A i, j \in 1..Len(files_to_sync) :
          files_to_sync[i].file # files_to_sync[j].file =>
             files_to_sync[i].s3_key # files_to_sync[j].s3_key
    /\ \A i, j \in 1..Len(upload_log) :
          i # j => upload_log[i].key # upload_log[j].key

\* C39: after a versioned sync run with max_versions >= 1 the rotation at
\* the end of the run never deletes objects of the version the run has
\* just uploaded: no key the run uploaded to is among the keys the
\* rotation calls delete_s3_object with, whatever other versions the
\* listing holds.
C39_NewVersionKept ==
    (sync_rule.versioning_enabled /\ sync_rule.max_versions >= 1) =>
       \A i \in UploadsOk : upload_log[i].key \notin delete_requests

\* The ticks of the log that find the schedule entry due.
DueTicks(schedule) ==
    {k \in 1..Len(mon_log) :
        ScheduleEntryDue(schedule, mon_log[k].now,
                         mon_config.check_interval_minutes)}

\* C40: for one schedule entry and one scheduled day at most one tick of a
\* single monitor loop finds the entry due: no two ticks of the loop on
\* the same day are both within the entry's window.
C40_OneDueTickPerEntry ==
    (mon_config.schedule_enabled /\ start_calls <= 1) =>
       \A i \in 1..Len(mon_config.schedules) :
          \A k1, k2 \in DueTicks(mon_config.schedules[i]) :
             mon_log[k1].now \div MinutesPerDay
                = mon_log[k2].now \div MinutesPerDay
             => k1 = k2
====
